---- MODULE Spec2Model ----
(***************************************************************************)
(* Verification model of the neutrino-api UTXO engine:                     *)
(*   internal/neutrino/rescan.go  RescanManager (registry, ledger, rescan) *)
(*   internal/neutrino/node.go    Node.GetUTXO  (point lookup)             *)
(* The chain service (headers, compact filters, blocks) is the environment:*)
(* a linear, consensus-valid chain that only grows, whose per-height calls *)
(* may fail transiently and whose filters have false positives but no      *)
(* false negatives.                                                        *)
(***************************************************************************)
EXTENDS Integers, Sequences, FiniteSets, Bags, TLC

\* Highest block height the chain may reach (heights are 0..MaxHeight).
MaxHeight == 2

None == "none"

(***************************************************************************)
(* Maps (Go map[string]T) as functions with a finite domain.               *)
(***************************************************************************)
EmptyMap == [k \in {} |-> None]

Put(m, k, v) == [x \in DOMAIN m \cup {k} |-> IF x = k THEN v ELSE m[x]]

Delete(m, k) == [x \in DOMAIN m \ {k} |-> m[x]]

Range(s) == {s[i] : i \in DOMAIN s}

(***************************************************************************)
(* Scripts, addresses and their encodings.                                 *)
(***************************************************************************)
HexDigits == <<"0", "1", "2", "3", "4", "5", "6", "7",
               "8", "9", "a", "b", "c", "d", "e", "f">>

RECURSIVE EncodeToString(_)
\* hex.EncodeToString: two lower-case hex digits per byte.
EncodeToString(bytes) ==
    IF bytes = <<>> THEN ""
    ELSE HexDigits[(Head(bytes) \div 16) + 1] \o HexDigits[(Head(bytes) % 16) + 1]
         \o EncodeToString(Tail(bytes))

\* Address strings a caller may supply; "x" does not decode for the network.
AddrStrings == {"a", "b", "x"}

\* btcutil.DecodeAddress: the decoded address (named by its String()), or None.
DecodeAddress(addrStr) == IF addrStr \in {"a", "b"} THEN addrStr ELSE None

\* txscript.PayToAddrScript: the output script paying the decoded address.
PayToAddrScript(addr) == IF addr = "a" THEN <<10>> ELSE <<11>>

\* A script that pays none of the addresses above.
OtherScript == <<12>>

(***************************************************************************)
(* Transactions and blocks (wire.MsgTx, btcutil.Block).                    *)
(***************************************************************************)
\* The previous outpoint of a coinbase input: it names no transaction.
NullOutPoint == [Hash |-> "00", Index |-> 0]

TxIds == {"t1", "t2", "t3"}

\* t1 pays address a; t3 pays a script of neither address; t2 spends t3:0,
\* then t1:0, and pays b, with change to a.
MsgTx(id) ==
    CASE id = "t1" -> [TxIn  |-> <<NullOutPoint>>,
                       TxOut |-> <<[Value |-> 50, PkScript |-> PayToAddrScript("a")]>>]
      [] id = "t2" -> [TxIn  |-> <<[Hash |-> "t3", Index |-> 0],
                                   [Hash |-> "t1", Index |-> 0]>>,
                       TxOut |-> <<[Value |-> 30, PkScript |-> PayToAddrScript("b")],
                                   [Value |-> 20, PkScript |-> PayToAddrScript("a")]>>]
      [] OTHER     -> [TxIn  |-> <<NullOutPoint>>,
                       TxOut |-> <<[Value |-> 50, PkScript |-> OtherScript]>>]

\* The transactions a transaction's inputs refer to.
Deps(id) == {MsgTx(id).TxIn[i].Hash : i \in DOMAIN MsgTx(id).TxIn} \cap TxIds

\* A block is the sequence of its transactions' ids, in on-chain order.
Blocks ==
    {b \in UNION {[1..n -> TxIds] : n \in 0..Cardinality(TxIds)} :
        \A i, j \in DOMAIN b : i # j => b[i] # b[j]}

Mined(ch) == UNION {Range(ch[h]) : h \in DOMAIN ch}

\* Consensus: a transaction is mined once, after the transactions it spends
\* (earlier in the same block counts).
ValidNext(ch, b) ==
    /\ Range(b) \cap Mined(ch) = {}
    /\ \A i \in DOMAIN b : Deps(b[i]) \subseteq Mined(ch) \cup {b[j] : j \in 1..(i - 1)}

\* The script an outpoint pays, or <<>> when it names no known output.
PrevScript(op) ==
    IF op.Hash \in TxIds /\ op.Index + 1 \in DOMAIN MsgTx(op.Hash).TxOut
    THEN MsgTx(op.Hash).TxOut[op.Index + 1].PkScript
    ELSE <<>>

\* BIP158 regular filter: the scripts of a block's outputs and of the outputs
\* its inputs spend.
FilterElements(b) ==
    UNION {{MsgTx(b[t]).TxOut[o].PkScript : o \in DOMAIN MsgTx(b[t]).TxOut}
           \cup ({PrevScript(MsgTx(b[t]).TxIn[i]) : i \in DOMAIN MsgTx(b[t]).TxIn} \ {<<>>})
           : t \in DOMAIN b}

\* filter.MatchAny without the false positives: some script is in the filter.
MatchAny(b, scripts) == \E i \in DOMAIN scripts : scripts[i] \in FilterElements(b)

(***************************************************************************)
(* Ledger records and keys.                                                *)
(***************************************************************************)
\* fmt.Sprintf("%s:%d", txid, vout)
UtxoKey(txid, vout) == txid \o ":" \o ToString(vout)

UTXO(txid, vout, value, addr, scriptHex, height) ==
    [TxID |-> txid, Vout |-> vout, Value |-> value, Address |-> addr,
     ScriptPubKey |-> scriptHex, Height |-> height]

(***************************************************************************)
(* NewNode and getChainParams (node.go, kept in node_test.go 268-302 and   *)
(* 728-742).                                                               *)
(***************************************************************************)
Networks == {"mainnet", "testnet", "regtest", "signet", "invalid", ""}

LogLevels == {"", "info", "debug"}

\* A nil *Config.
NilConfig == [nil |-> TRUE, Network |-> "", LogLevel |-> ""]

\* The *Config a caller may pass: nil, or a configuration with a logging
\* backend, a network name and a log level.
Configs == {NilConfig} \cup [nil : {FALSE}, Network : Networks, LogLevel : LogLevels]

\* Variant: signet is not among the networks.
getChainParamsNoSignet(network) ==
    CASE network = "mainnet" -> "MainNetParams"
      [] network = "testnet" -> "TestNet3Params"
      [] network = "regtest" -> "RegressionNetParams"
      [] OTHER -> None

\* 728-742: the chain parameters of the network (named), or None for
\* "unknown network".
getChainParams(network) ==
    CASE network = "mainnet" -> "MainNetParams"
      [] network = "testnet" -> "TestNet3Params"
      [] network = "regtest" -> "RegressionNetParams"
      [] network = "signet" -> "SigNetParams"
      [] OTHER -> None

\* The Status (260-266) of the last GetStatus call; asked tells whether there
\* was one.
NoStatus ==
    [asked |-> FALSE, Synced |-> FALSE, BlockHeight |-> 0, FilterHeight |-> 0,
     Peers |-> 0]

\* No node: NewNode has not been called.  synced, blockHeight and
\* filterHeight are the zero values of the Node struct (236-239); peers is
\* the number of peers of the chain service.
NoNode ==
    [pc |-> "none", config |-> NilConfig, chainParams |-> None, err |-> None,
     synced |-> FALSE, blockHeight |-> 0, filterHeight |-> 0, peers |-> 0,
     status |-> NoStatus]

\* 269-302: NewNode's outcome for a configuration: an error and no node, or
\* the node with its configuration and chain parameters.
NewNodeResult(config) ==
    IF config.nil
    THEN [NoNode EXCEPT !.pc = "failed", !.err = "config is required"]
    ELSE IF getChainParams(config.Network) = None
    THEN [NoNode EXCEPT !.pc = "failed", !.config = config,
                        !.err = "invalid network"]
    ELSE [NoNode EXCEPT !.pc = "created", !.config = config,
                        !.chainParams = getChainParams(config.Network)]

VARIABLES
    node,           \* the Node: NewNode's argument and result, the fields GetStatus reads
    chainService,   \* Node.chainService, RescanManager.chainService: "nil" or "running"
    chain,          \* the blocks of the chain, chain[h + 1] at height h
    watchedAddrs,   \* RescanManager.watchedAddrs: address string -> decoded address
    utxoSet,        \* RescanManager.utxoSet: "txid:vout" -> UTXO
    mu,             \* RescanManager.mu: [writer, readers]
    rs,             \* the running Rescan calls, one record per caller
    qs,             \* the running GetUTXOs calls, one record per caller
    lk,             \* the running Node.GetUTXO call
    wa,             \* history: the last WatchAddress call made from outside
    resp,           \* the REST layer: the request in hand and the reply written
    resolved,       \* history: per address string, how often it was decoded and stored
    obsCreated,     \* history: keys recorded as created by completed rescans
    obsSpent,       \* history: keys recorded as spent by completed rescans
                    \* (the null outpoint of a coinbase input left out)
    applied         \* history: the last update a rescan completed while another
                    \* rescan was under way

vars == <<node, chainService, chain, watchedAddrs, utxoSet, mu, rs, qs, lk, resp, wa, resolved,
          obsCreated, obsSpent, applied>>

\* chainService.BestBlock().Height
BestHeight == Len(chain) - 1

BlockAt(h) == chain[h + 1]

Rescanners == {"r1"}

\* The callers of Rescan when two calls run side by side.
ConcurrentRescanners == {"r1", "r2"}

\* Address lists of a request.
AddrLists == {<<>>, <<"a">>, <<"b">>, <<"a", "b">>, <<"b", "a">>, <<"x">>, <<"a", "x">>}

StartHeights == 0..(MaxHeight + 1)

\* No update completed beside a running rescan.  Of such an update: who
\* made it, the ledger it found, and the found and spent sets it applied.
NoApplied ==
    [set |-> FALSE, by |-> "", before |-> EmptyMap, found |-> EmptyMap, spent |-> {}]

\* A Rescan call at rest.  registered tells whether the call has added an
\* address to the registry; it is kept for a call whose start height lies
\* above the tip.
IdleRescan ==
    [pc |-> "idle", startHeight |-> 0, addresses |-> <<>>, addrs |-> <<>>,
     endHeight |-> 0, height |-> 0, scripts |-> <<>>, addrToScript |-> EmptyMap,
     spentOutputs |-> {}, foundUTXOs |-> EmptyMap, fetched |-> {}, todo |-> {},
     before |-> EmptyMap, last |-> <<>>, err |-> None, rest |-> FALSE,
     registered |-> FALSE]

Queriers == {"q1"}

IdleQuery ==
    [pc |-> "idle", addresses |-> <<>>, pending |-> <<>>, todo |-> {},
     utxos |-> EmptyBag, made |-> FALSE, snapshot |-> EmptyMap, err |-> None]

\* The REST layer at rest.  Of a request: the handler, whether it is still
\* to be answered, and the status and the body (the error message, or the
\* "status" field) of the answer; called tells whether the handler called
\* the node before it answered.
NoRequest == [pc |-> "idle", handler |-> "", status |-> 0, body |-> "", called |-> FALSE]

\* No WatchAddress call yet.  Of a call: the string, the error returned and
\* the registry it found.
NoWatch == [addrStr |-> "", err |-> None, before |-> EmptyMap]

IdleLookup ==
    [pc |-> "idle", txid |-> "", vout |-> 0, address |-> "", startHeight |-> 0,
     endHeight |-> 0, height |-> 0, pkScript |-> <<>>, foundTx |-> None,
     foundHeight |-> 0, spendingTxHash |-> "", spendingInputIdx |-> 0,
     spendingHeight |-> 0, fetched |-> {}, skipped |-> {}, report |-> None,
     err |-> None, calls |-> {}, last |-> <<>>, rest |-> FALSE, http |-> 0,
     httpErr |-> ""]

\* sync.RWMutex: Lock waits for the writer and every reader to leave,
\* RLock for the writer only.
LockFree == mu.writer = None /\ mu.readers = {}

RLockFree == mu.writer = None

Init ==
    /\ node = NewNodeResult([nil |-> FALSE, Network |-> "regtest", LogLevel |-> "info"])
    /\ chainService \in {"nil", "running"}
    /\ chain \in {<<b>> : b \in {x \in Blocks : ValidNext(<<>>, x)}}
    /\ watchedAddrs = EmptyMap
    /\ utxoSet = EmptyMap
    /\ mu = [writer |-> None, readers |-> {}]
    /\ rs = [p \in ConcurrentRescanners |-> IdleRescan]
    /\ qs = [q \in Queriers |-> IdleQuery]
    /\ lk = IdleLookup
    /\ resp = NoRequest
    /\ wa = NoWatch
    /\ resolved = [a \in AddrStrings |-> 0]
    /\ obsCreated = {}
    /\ obsSpent = {}
    /\ applied = NoApplied

\* GetUTXOs 81-91 as a function of the ledger: the records whose owning
\* address is one of the requested strings.
Collect(ledger, addresses) ==
    {ledger[k] : k \in {x \in DOMAIN ledger : ledger[x].Address \in Range(addresses)}}

(***************************************************************************)
(* Node.Start: the chain service is created and started.                   *)
(***************************************************************************)
Start ==
    /\ chainService = "nil"
    /\ chainService' = "running"
    /\ UNCHANGED <<applied, node, resp, wa, resolved, chain, watchedAddrs, utxoSet, mu, rs, qs, lk, obsCreated, obsSpent>>

(***************************************************************************)
(* The chain grows by one consensus-valid block.                           *)
(***************************************************************************)
MineBlock ==
    /\ BestHeight < MaxHeight
    /\ \E b \in Blocks :
        /\ ValidNext(chain, b)
        /\ chain' = Append(chain, b)
    /\ UNCHANGED <<applied, node, chainService, resp, wa, resolved, watchedAddrs, utxoSet, mu, rs, obsCreated, obsSpent, qs, lk>>

(***************************************************************************)
(* The life of the Node: NewNode, monitorSync, GetStatus (node.go, kept in *)
(* node_test.go 268-302, 408-423, 666-726).                                *)
(***************************************************************************)
\* Peer counts the chain service may report.
PeerCounts == {0, 1, 2}

\* Before NewNode is called.
InitNode ==
    /\ node = NoNode
    /\ chainService = "nil"
    /\ chain \in {<<b>> : b \in {x \in Blocks : ValidNext(<<>>, x)}}
    /\ watchedAddrs = EmptyMap
    /\ utxoSet = EmptyMap
    /\ mu = [writer |-> None, readers |-> {}]
    /\ rs = [p \in ConcurrentRescanners |-> IdleRescan]
    /\ qs = [q \in Queriers |-> IdleQuery]
    /\ lk = IdleLookup
    /\ resp = NoRequest
    /\ wa = NoWatch
    /\ resolved = [a \in AddrStrings |-> 0]
    /\ obsCreated = {}
    /\ obsSpent = {}
    /\ applied = NoApplied

\* 269-302: NewNode(config).
NewNode(config) ==
    /\ node.pc = "none"
    /\ node' = NewNodeResult(config)
    /\ UNCHANGED <<applied, chainService, resp, wa, resolved, chain, watchedAddrs, utxoSet, mu, rs, qs, lk,
                   obsCreated, obsSpent>>

\* The peers of the running chain service come and go.
PeersChange ==
    /\ chainService = "running"
    /\ \E n \in PeerCounts : node' = [node EXCEPT !.peers = n]
    /\ UNCHANGED <<applied, chainService, resp, wa, resolved, chain, watchedAddrs, utxoSet, mu, rs, qs, lk,
                   obsCreated, obsSpent>>

\* 673-725: one tick of the goroutine Start launches.  A failed BestBlock
\* leaves the fields alone; otherwise the heights and synced are written.
MonitorSync ==
    /\ node.pc = "created"
    /\ chainService = "running"
    /\ \/ node' = node
       \/ \E isCurrent \in BOOLEAN :
            node' = [node EXCEPT !.blockHeight = BestHeight,
                                 !.filterHeight = BestHeight,
                                 !.synced = isCurrent]
    /\ UNCHANGED <<applied, chainService, resp, wa, resolved, chain, watchedAddrs, utxoSet, mu, rs, qs, lk,
                   obsCreated, obsSpent>>

\* 408-423: GetStatus; without a chain service the peer count is 0.
GetStatus ==
    /\ node.pc = "created"
    /\ node' = [node EXCEPT !.status =
                    [asked |-> TRUE, Synced |-> node.synced,
                     BlockHeight |-> node.blockHeight,
                     FilterHeight |-> node.filterHeight,
                     Peers |-> IF chainService = "nil" THEN 0 ELSE node.peers]]
    /\ UNCHANGED <<applied, chainService, resp, wa, resolved, chain, watchedAddrs, utxoSet, mu, rs, qs, lk,
                   obsCreated, obsSpent>>

(***************************************************************************)
(* WatchAddress (rescan.go 45-61), under mu.Lock.                          *)
(***************************************************************************)
\* Variant: the registry is not consulted before decoding.
NeverExists(w, addrStr) == FALSE

\* 49: _, exists := r.watchedAddrs[addrStr]
Exists(w, addrStr) == addrStr \in DOMAIN w

\* The registry after WatchAddress(addrStr); unchanged when it is already
\* watched or does not decode.
Watched(w, addrStr) ==
    IF Exists(w, addrStr) THEN w
    ELSE IF DecodeAddress(addrStr) = None THEN w
    ELSE Put(w, addrStr, DecodeAddress(addrStr))

\* The history of a call: line 59 was reached once more (counted up to 2).
Resolved(n, w, addrStr) ==
    IF ~Exists(w, addrStr) /\ DecodeAddress(addrStr) # None
    THEN [n EXCEPT ![addrStr] = IF @ < 2 THEN @ + 1 ELSE @]
    ELSE n

\* Variant: registering a watched address again is an error.
WatchErrorAlreadyWatched(w, addrStr) ==
    IF addrStr \in DOMAIN w THEN "already watched"
    ELSE IF DecodeAddress(addrStr) = None THEN "invalid address"
    ELSE None

\* WatchAddress's error: None for success.
WatchError(w, addrStr) ==
    IF ~Exists(w, addrStr) /\ DecodeAddress(addrStr) = None
    THEN "invalid address" ELSE None

\* 45-61, the whole call under mu.Lock.
WatchAddress(addrStr) ==
    /\ LockFree
    /\ watchedAddrs' = Watched(watchedAddrs, addrStr)
    /\ wa' = [addrStr |-> addrStr, err |-> WatchError(watchedAddrs, addrStr),
              before |-> watchedAddrs]
    /\ resolved' = Resolved(resolved, watchedAddrs, addrStr)
    /\ UNCHANGED <<applied, node, chainService, resp, chain, utxoSet, mu, rs, obsCreated, obsSpent, qs, lk>>

(***************************************************************************)
(* Rescan (rescan.go 99-131).                                              *)
(***************************************************************************)
\* 100-102: without a chain service the call ends at once with an error.
RescanCall(p, startHeight, addresses) ==
    /\ rs[p].pc = "idle"
    /\ rs' = [rs EXCEPT ![p] =
                [IdleRescan EXCEPT !.pc = IF chainService = "nil" THEN "done" ELSE "watch",
                                   !.err = IF chainService = "nil"
                                           THEN "chain service not initialized" ELSE None,
                                   !.startHeight = startHeight,
                                   !.addresses = addresses]]
    /\ UNCHANGED <<applied, node, chainService, resp, wa, resolved, chain, watchedAddrs, utxoSet, mu, obsCreated, obsSpent, qs, lk>>

\* Variant: an address that does not decode is left out and the loop goes on.
RescanWatchDropBad(p) ==
    /\ rs[p].pc = "watch"
    /\ rs[p].addresses # <<>>
    /\ LockFree
    /\ LET addrStr == Head(rs[p].addresses) IN
        /\ watchedAddrs' = Watched(watchedAddrs, addrStr)
        /\ resolved' = Resolved(resolved, watchedAddrs, addrStr)
        /\ IF WatchError(watchedAddrs, addrStr) # None
           THEN rs' = [rs EXCEPT ![p].addresses = Tail(@)]
           ELSE rs' = [rs EXCEPT ![p].addresses = Tail(@),
                                 ![p].addrs = Append(@, watchedAddrs'[addrStr]),
                                 ![p].registered = (@ \/ ~Exists(watchedAddrs, addrStr))
                                                   /\ rs[p].startHeight > BestHeight]
    /\ UNCHANGED <<applied, node, chainService, resp, wa, chain, utxoSet, mu, obsCreated, obsSpent, qs, lk>>

\* One turn of the registration loop: WatchAddress, then the read of the
\* decoded address; an undecodable address ends the call with its error.
RescanWatch(p) ==
    /\ rs[p].pc = "watch"
    /\ rs[p].addresses # <<>>
    /\ LockFree
    /\ LET addrStr == Head(rs[p].addresses) IN
        /\ watchedAddrs' = Watched(watchedAddrs, addrStr)
        /\ resolved' = Resolved(resolved, watchedAddrs, addrStr)
        /\ IF WatchError(watchedAddrs, addrStr) # None
           THEN rs' = [rs EXCEPT ![p].pc = "done",
                                 ![p].err = WatchError(watchedAddrs, addrStr)]
           ELSE rs' = [rs EXCEPT ![p].addresses = Tail(@),
                                 ![p].addrs = Append(@, watchedAddrs'[addrStr]),
                                 ![p].registered = (@ \/ ~Exists(watchedAddrs, addrStr))
                                                   /\ rs[p].startHeight > BestHeight]
    /\ UNCHANGED <<applied, node, chainService, resp, wa, chain, utxoSet, mu, obsCreated, obsSpent, qs, lk>>

\* scanBlocks 137-148: the scripts to match and the script -> address map.
RECURSIVE AddrToScript(_)
AddrToScript(addrs) ==
    IF addrs = <<>> THEN EmptyMap
    ELSE Put(AddrToScript(SubSeq(addrs, 1, Len(addrs) - 1)),
             EncodeToString(PayToAddrScript(addrs[Len(addrs)])), addrs[Len(addrs)])

Scripts(addrs) == [i \in DOMAIN addrs |-> PayToAddrScript(addrs[i])]

\* Variant: an empty address list is passed on to scanBlocks.
RescanBestBlockNoGuard(p) ==
    /\ rs[p].pc = "watch"
    /\ rs[p].addresses = <<>>
    /\ \/ rs' = [rs EXCEPT ![p].pc = "done",
                            ![p].err = "failed to get best block"]
       \/ IF Scripts(rs[p].addrs) = <<>>
          THEN rs' = [rs EXCEPT ![p].pc = "done",
                                ![p].err = "no valid scripts to scan for"]
          ELSE rs' = [rs EXCEPT ![p].pc = "scan",
                                ![p].endHeight = BestHeight,
                                ![p].registered = @ /\ rs[p].startHeight > BestHeight,
                                ![p].height = rs[p].startHeight,
                                ![p].scripts = Scripts(rs[p].addrs),
                                ![p].addrToScript = AddrToScript(rs[p].addrs)]
    /\ UNCHANGED <<applied, node, chainService, resp, wa, resolved, chain, watchedAddrs, utxoSet, mu, obsCreated, obsSpent, qs, lk>>

\* Variant: a start height above the tip is brought down to the tip.
RescanBestBlockClamp(p) ==
    /\ rs[p].pc = "watch"
    /\ rs[p].addresses = <<>>
    /\ IF rs[p].addrs = <<>>
       THEN rs' = [rs EXCEPT ![p].pc = "done"]
       ELSE \/ rs' = [rs EXCEPT ![p].pc = "done",
                                ![p].err = "failed to get best block"]
            \/ IF Scripts(rs[p].addrs) = <<>>
               THEN rs' = [rs EXCEPT ![p].pc = "done",
                                     ![p].err = "no valid scripts to scan for"]
               ELSE rs' = [rs EXCEPT ![p].pc = "scan",
                                     ![p].endHeight = BestHeight,
                                     ![p].registered = @ /\ rs[p].startHeight > BestHeight,
                                     ![p].height = IF rs[p].startHeight > BestHeight
                                                   THEN BestHeight ELSE rs[p].startHeight,
                                     ![p].scripts = Scripts(rs[p].addrs),
                                     ![p].addrToScript = AddrToScript(rs[p].addrs)]
    /\ UNCHANGED <<applied, node, chainService, resp, wa, resolved, chain, watchedAddrs, utxoSet, mu, obsCreated, obsSpent, qs, lk>>

\* After the loop: no address means nothing to do and return nil (116-119);
\* otherwise read the tip (124-127) and enter scanBlocks, which refuses an
\* empty list of scripts (150-152).
RescanBestBlock(p) ==
    /\ rs[p].pc = "watch"
    /\ rs[p].addresses = <<>>
    /\ IF rs[p].addrs = <<>>
       THEN rs' = [rs EXCEPT ![p].pc = "done"]
       ELSE \/ rs' = [rs EXCEPT ![p].pc = "done",
                                ![p].err = "failed to get best block"]
            \/ IF Scripts(rs[p].addrs) = <<>>
               THEN rs' = [rs EXCEPT ![p].pc = "done",
                                     ![p].err = "no valid scripts to scan for"]
               ELSE rs' = [rs EXCEPT ![p].pc = "scan",
                                     ![p].endHeight = BestHeight,
                                     ![p].registered = @ /\ rs[p].startHeight > BestHeight,
                                     ![p].height = rs[p].startHeight,
                                     ![p].scripts = Scripts(rs[p].addrs),
                                     ![p].addrToScript = AddrToScript(rs[p].addrs)]
    /\ UNCHANGED <<applied, node, chainService, resp, wa, resolved, chain, watchedAddrs, utxoSet, mu, obsCreated, obsSpent, qs, lk>>

(***************************************************************************)
(* scanBlocks (rescan.go 134-248): the height loop.                        *)
(***************************************************************************)
\* Variant: the position of the input is taken for the output index.
SpentByTxInputIndex(tx) ==
    {UtxoKey(tx.TxIn[i].Hash, i - 1) : i \in DOMAIN tx.TxIn}

\* 204-208: every input's previous outpoint is recorded as spent.
SpentByTx(tx) ==
    {UtxoKey(tx.TxIn[i].Hash, tx.TxIn[i].Index) : i \in DOMAIN tx.TxIn}

\* Variant: the record's height is left at its zero value.
RECURSIVE FoundInTxNoHeight(_, _, _, _, _, _)
FoundInTxNoHeight(found, txHash, tx, vout, height, addrToScript) ==
    IF vout >= Len(tx.TxOut) THEN found
    ELSE LET txOut == tx.TxOut[vout + 1]
             scriptHex == EncodeToString(txOut.PkScript)
         IN FoundInTxNoHeight(
                IF scriptHex \in DOMAIN addrToScript
                THEN Put(found, UtxoKey(txHash, vout),
                         UTXO(txHash, vout, txOut.Value, addrToScript[scriptHex],
                              scriptHex, 0))
                ELSE found,
                txHash, tx, vout + 1, height, addrToScript)

\* Variant: the loop over the outputs stops at the first one that matches.
RECURSIVE FoundInTxFirst(_, _, _, _, _, _)
FoundInTxFirst(found, txHash, tx, vout, height, addrToScript) ==
    IF vout >= Len(tx.TxOut) THEN found
    ELSE LET txOut == tx.TxOut[vout + 1]
             scriptHex == EncodeToString(txOut.PkScript)
         IN IF scriptHex \in DOMAIN addrToScript
            THEN Put(found, UtxoKey(txHash, vout),
                     UTXO(txHash, vout, txOut.Value, addrToScript[scriptHex],
                          scriptHex, height))
            ELSE FoundInTxFirst(found, txHash, tx, vout + 1, height, addrToScript)

\* 211-226: every output paying a watched script is recorded as found.
RECURSIVE FoundInTx(_, _, _, _, _, _)
FoundInTx(found, txHash, tx, vout, height, addrToScript) ==
    IF vout >= Len(tx.TxOut) THEN found
    ELSE LET txOut == tx.TxOut[vout + 1]
             scriptHex == EncodeToString(txOut.PkScript)
         IN FoundInTx(
                IF scriptHex \in DOMAIN addrToScript
                THEN Put(found, UtxoKey(txHash, vout),
                         UTXO(txHash, vout, txOut.Value, addrToScript[scriptHex],
                              scriptHex, height))
                ELSE found,
                txHash, tx, vout + 1, height, addrToScript)

\* Variant: an input counts as a spend only when the output it refers to
\* pays a watched script.
RECURSIVE ScanBlockWatchedInputs(_, _, _, _)
ScanBlockWatchedInputs(st, txs, height, addrToScript) ==
    IF txs = <<>> THEN st
    ELSE ScanBlockWatchedInputs(
            [spentOutputs |-> st.spentOutputs
                \cup {UtxoKey(op.Hash, op.Index) :
                        op \in {x \in Range(MsgTx(Head(txs)).TxIn) :
                                  EncodeToString(PrevScript(x)) \in DOMAIN addrToScript}},
             foundUTXOs   |-> FoundInTx(st.foundUTXOs, Head(txs), MsgTx(Head(txs)), 0,
                                        height, addrToScript)],
            Tail(txs), height, addrToScript)

\* 200-227: the transactions of one block, in block order.
RECURSIVE ScanBlock(_, _, _, _)
ScanBlock(st, txs, height, addrToScript) ==
    IF txs = <<>> THEN st
    ELSE ScanBlock(
            [spentOutputs |-> st.spentOutputs \cup SpentByTx(MsgTx(Head(txs))),
             foundUTXOs   |-> FoundInTx(st.foundUTXOs, Head(txs), MsgTx(Head(txs)), 0,
                                        height, addrToScript)],
            Tail(txs), height, addrToScript)

\* Variant: the block is requested before the filter is consulted, also
\* when the filter does not match.
HeightCallsBlockFirst(outcome, matchCall) ==
    LET hash(r)   == [call |-> "GetBlockHash", result |-> r]
        filter(r) == [call |-> "GetCFilter", result |-> r]
        match(r)  == [call |-> matchCall, result |-> r]
        block(r)  == [call |-> "GetBlock", result |-> r]
    IN CASE outcome = "hash"     -> <<hash("error")>>
         [] outcome = "filter"   -> <<hash("ok"), block("ok"), filter("error")>>
         [] outcome = "nil"      -> <<hash("ok"), block("ok"), filter("nil")>>
         [] outcome = "matcherr" -> <<hash("ok"), block("ok"), filter("ok"), match("error")>>
         [] outcome = "nomatch"  -> <<hash("ok"), block("ok"), filter("ok"), match("false")>>
         [] outcome = "block"    -> <<hash("ok"), block("error")>>
         [] OTHER                -> <<hash("ok"), block("ok"), filter("ok"), match("true")>>

\* 161-197 (and node.go's 566-602, with filter.Match): the calls one turn of
\* the height loop makes, with their results, up to the continue (or to the
\* block in hand) that ends the turn.
HeightCalls(outcome, matchCall) ==
    LET hash(r)   == [call |-> "GetBlockHash", result |-> r]
        filter(r) == [call |-> "GetCFilter", result |-> r]
        match(r)  == [call |-> matchCall, result |-> r]
        block(r)  == [call |-> "GetBlock", result |-> r]
    IN CASE outcome = "hash"     -> <<hash("error")>>
         [] outcome = "filter"   -> <<hash("ok"), filter("error")>>
         [] outcome = "nil"      -> <<hash("ok"), filter("nil")>>
         [] outcome = "matcherr" -> <<hash("ok"), filter("ok"), match("error")>>
         [] outcome = "nomatch"  -> <<hash("ok"), filter("ok"), match("false")>>
         [] outcome = "block"    -> <<hash("ok"), filter("ok"), match("true"), block("error")>>
         [] OTHER                -> <<hash("ok"), filter("ok"), match("true"), block("ok")>>

\* The requests to the chain service among the calls of a turn (the match is
\* computed locally).
ServiceCalls(trace) ==
    {trace[i].call : i \in DOMAIN trace} \cap {"GetBlockHash", "GetCFilter", "GetBlock"}

\* The ways a height is skipped: no block hash, no filter, a nil filter, a
\* match error, no match, or a block that cannot be fetched.  "no match"
\* needs a filter that really holds none of the scripts.
SkipReasons(b, scripts) ==
    {"hash", "filter", "nil", "matcherr", "block"}
    \cup (IF MatchAny(b, scripts) THEN {} ELSE {"nomatch"})

\* Variant: a height whose call failed is tried again.
ScanSkipRetry(p) ==
    /\ rs[p].pc = "scan"
    /\ rs[p].height <= rs[p].endHeight
    /\ \E reason \in SkipReasons(BlockAt(rs[p].height), rs[p].scripts) :
        rs' = [rs EXCEPT ![p].height = IF reason \in {"nil", "nomatch"} THEN @ + 1 ELSE @,
                         ![p].last = HeightCalls(reason, "MatchAny")]
    /\ UNCHANGED <<applied, node, chainService, resp, wa, resolved, chain, watchedAddrs, utxoSet, mu, obsCreated, obsSpent, qs, lk>>

\* Variant: the tip is read again at every height.
ScanSkipToTip(p) ==
    /\ rs[p].pc = "scan"
    /\ rs[p].height <= rs[p].endHeight
    /\ \E reason \in SkipReasons(BlockAt(rs[p].height), rs[p].scripts) :
        rs' = [rs EXCEPT ![p].height = @ + 1,
                         ![p].endHeight = BestHeight,
                         ![p].last = HeightCalls(reason, "MatchAny")]
    /\ UNCHANGED <<applied, node, chainService, resp, wa, resolved, chain, watchedAddrs, utxoSet, mu, obsCreated, obsSpent, qs, lk>>

\* Variant: a failed call ends the scan with an error.
ScanSkipAbort(p) ==
    /\ rs[p].pc = "scan"
    /\ rs[p].height <= rs[p].endHeight
    /\ \E reason \in SkipReasons(BlockAt(rs[p].height), rs[p].scripts) :
        rs' = [rs EXCEPT ![p].height = IF reason \in {"nil", "nomatch"} THEN @ + 1 ELSE @,
                         ![p].pc = IF reason \in {"nil", "nomatch"} THEN "scan" ELSE "done",
                         ![p].err = IF reason \in {"nil", "nomatch"} THEN None
                                    ELSE "failed to scan block",
                         ![p].last = HeightCalls(reason, "MatchAny")]
    /\ UNCHANGED <<applied, node, chainService, resp, wa, resolved, chain, watchedAddrs, utxoSet, mu, obsCreated, obsSpent, qs, lk>>

\* 161-197: a height that is skipped; the loop goes on with the next one.
ScanSkip(p) ==
    /\ rs[p].pc = "scan"
    /\ rs[p].height <= rs[p].endHeight
    /\ \E reason \in SkipReasons(BlockAt(rs[p].height), rs[p].scripts) :
        rs' = [rs EXCEPT ![p].height = @ + 1,
                         ![p].last = HeightCalls(reason, "MatchAny")]
    /\ UNCHANGED <<applied, node, chainService, resp, wa, resolved, chain, watchedAddrs, utxoSet, mu, obsCreated, obsSpent, qs, lk>>

\* Variant: the outputs found in a block are stored as soon as it is read.
ScanFetchCommit(p) ==
    /\ rs[p].pc = "scan"
    /\ rs[p].height <= rs[p].endHeight
    /\ LET st == ScanBlock([spentOutputs |-> rs[p].spentOutputs,
                            foundUTXOs |-> rs[p].foundUTXOs],
                           BlockAt(rs[p].height), rs[p].height, rs[p].addrToScript)
       IN /\ rs' = [rs EXCEPT ![p].height = @ + 1,
                              ![p].spentOutputs = st.spentOutputs,
                              ![p].foundUTXOs = st.foundUTXOs,
                              ![p].last = HeightCalls("ok", "MatchAny"),
                              ![p].fetched = @ \cup {rs[p].height}]
          /\ utxoSet' = [k \in DOMAIN utxoSet \cup DOMAIN st.foundUTXOs |->
                            IF k \in DOMAIN st.foundUTXOs THEN st.foundUTXOs[k]
                            ELSE utxoSet[k]]
    /\ UNCHANGED <<applied, node, chainService, resp, wa, resolved, chain, watchedAddrs, mu, obsCreated, obsSpent, qs, lk>>

\* 159-228 for the heights whose blocks came: what the loop has collected
\* after the heights h..endHeight, the blocks of the heights in fetched
\* being the ones it read.
RECURSIVE ScanFetched(_, _, _, _, _)
ScanFetched(st, h, endHeight, fetched, addrToScript) ==
    IF h > endHeight THEN st
    ELSE ScanFetched(IF h \in fetched
                     THEN ScanBlock(st, BlockAt(h), h, addrToScript)
                     ELSE st,
                     h + 1, endHeight, fetched, addrToScript)

\* The filter matched (rightly or as a false positive) and the block came.
ScanFetch(p) ==
    /\ rs[p].pc = "scan"
    /\ rs[p].height <= rs[p].endHeight
    /\ LET st == ScanBlock([spentOutputs |-> rs[p].spentOutputs,
                            foundUTXOs |-> rs[p].foundUTXOs],
                           BlockAt(rs[p].height), rs[p].height, rs[p].addrToScript)
       IN rs' = [rs EXCEPT ![p].height = @ + 1,
                           ![p].spentOutputs = st.spentOutputs,
                           ![p].foundUTXOs = st.foundUTXOs,
                           ![p].last = HeightCalls("ok", "MatchAny"),
                           ![p].fetched = @ \cup {rs[p].height}]
    /\ UNCHANGED <<applied, node, chainService, resp, wa, resolved, chain, watchedAddrs, utxoSet, mu, obsCreated, obsSpent, qs, lk>>

(***************************************************************************)
(* scanBlocks 230-247: the ledger update, under mu.Lock.                   *)
(***************************************************************************)
\* Variant: a found output keeps the owner of the record already stored.
InsertOneKeepAddress(ledger, found, spent, k) ==
    IF k \in spent THEN ledger
    ELSE IF k \in DOMAIN ledger
    THEN Put(ledger, k, [found[k] EXCEPT !.Address = ledger[k].Address])
    ELSE Put(ledger, k, found[k])

\* Variant: a found output is merged into the record already stored.
InsertOneMerge(ledger, found, spent, k) ==
    IF k \in spent THEN ledger
    ELSE IF k \in DOMAIN ledger
    THEN Put(ledger, k, [found[k] EXCEPT !.Value = @ + ledger[k].Value])
    ELSE Put(ledger, k, found[k])

\* 235-239: one found output is stored unless this scan saw it spent.
InsertOne(ledger, found, spent, k) ==
    IF k \notin spent THEN Put(ledger, k, found[k]) ELSE ledger

\* 242-244: one spent outpoint is deleted.
RemoveOne(ledger, k) == Delete(ledger, k)

RECURSIVE InsertAll(_, _, _, _)
InsertAll(ledger, found, spent, todo) ==
    IF todo = {} THEN ledger
    ELSE LET k == CHOOSE x \in todo : TRUE
         IN InsertAll(InsertOne(ledger, found, spent, k), found, spent, todo \ {k})

RECURSIVE RemoveAll(_, _)
RemoveAll(ledger, todo) ==
    IF todo = {} THEN ledger
    ELSE LET k == CHOOSE x \in todo : TRUE
         IN RemoveAll(RemoveOne(ledger, k), todo \ {k})

\* 234-244 as one function of the ledger: the insertions, then the deletions.
Apply(ledger, found, spent) ==
    RemoveAll(InsertAll(ledger, found, spent, DOMAIN found), spent)

\* Variant: the update waits for nobody.
UpdateLockNoWait(p) ==
    /\ rs[p].pc = "scan"
    /\ rs[p].height > rs[p].endHeight
    /\ mu' = [mu EXCEPT !.writer = p]
    /\ rs' = [rs EXCEPT ![p].pc = "insert",
                        ![p].todo = DOMAIN rs[p].foundUTXOs,
                        ![p].before = utxoSet,
                        ![p].last = <<>>]
    /\ UNCHANGED <<applied, node, chainService, resp, wa, resolved, chain, watchedAddrs, utxoSet, obsCreated, obsSpent, qs, lk>>

\* Variant: the update takes the read lock, which waits for no reader.
UpdateLockShared(p) ==
    /\ rs[p].pc = "scan"
    /\ rs[p].height > rs[p].endHeight
    /\ RLockFree
    /\ mu' = [mu EXCEPT !.writer = p]
    /\ rs' = [rs EXCEPT ![p].pc = "insert",
                        ![p].todo = DOMAIN rs[p].foundUTXOs,
                        ![p].before = utxoSet,
                        ![p].last = <<>>]
    /\ UNCHANGED <<applied, node, chainService, resp, wa, resolved, chain, watchedAddrs, utxoSet, obsCreated, obsSpent, qs, lk>>

\* 231: r.mu.Lock()
UpdateLock(p) ==
    /\ rs[p].pc = "scan"
    /\ rs[p].height > rs[p].endHeight
    /\ LockFree
    /\ mu' = [mu EXCEPT !.writer = p]
    /\ rs' = [rs EXCEPT ![p].pc = "insert",
                        ![p].todo = DOMAIN rs[p].foundUTXOs,
                        ![p].before = utxoSet,
                        ![p].last = <<>>]
    /\ UNCHANGED <<applied, node, chainService, resp, wa, resolved, chain, watchedAddrs, utxoSet, obsCreated, obsSpent, qs, lk>>

\* 235-239: one turn of the loop over foundUTXOs (Go visits a map in any order).
InsertFound(p) ==
    /\ rs[p].pc = "insert"
    /\ \E k \in rs[p].todo :
        /\ utxoSet' = InsertOne(utxoSet, rs[p].foundUTXOs, rs[p].spentOutputs, k)
        /\ rs' = [rs EXCEPT ![p].todo = @ \ {k}]
    /\ UNCHANGED <<applied, node, chainService, resp, wa, resolved, chain, watchedAddrs, mu, obsCreated, obsSpent, qs, lk>>

InsertDone(p) ==
    /\ rs[p].pc = "insert"
    /\ rs[p].todo = {}
    /\ rs' = [rs EXCEPT ![p].pc = "remove", ![p].todo = rs[p].spentOutputs]
    /\ UNCHANGED <<applied, node, chainService, resp, wa, resolved, chain, watchedAddrs, utxoSet, mu, obsCreated, obsSpent, qs, lk>>

\* Variant: an outpoint this scan found is never deleted.
RemoveSpentKeepFound(p) ==
    /\ rs[p].pc = "remove"
    /\ \E k \in rs[p].todo :
        /\ utxoSet' = IF k \in DOMAIN rs[p].foundUTXOs THEN utxoSet
                      ELSE RemoveOne(utxoSet, k)
        /\ rs' = [rs EXCEPT ![p].todo = @ \ {k}]
    /\ UNCHANGED <<applied, node, chainService, resp, wa, resolved, chain, watchedAddrs, mu, obsCreated, obsSpent, qs, lk>>

\* 242-244: one turn of the loop over spentOutputs.
RemoveSpent(p) ==
    /\ rs[p].pc = "remove"
    /\ \E k \in rs[p].todo :
        /\ utxoSet' = RemoveOne(utxoSet, k)
        /\ rs' = [rs EXCEPT ![p].todo = @ \ {k}]
    /\ UNCHANGED <<applied, node, chainService, resp, wa, resolved, chain, watchedAddrs, mu, obsCreated, obsSpent, qs, lk>>

RemoveDone(p) ==
    /\ rs[p].pc = "remove"
    /\ rs[p].todo = {}
    /\ rs' = [rs EXCEPT ![p].pc = "updated"]
    /\ UNCHANGED <<applied, node, chainService, resp, wa, resolved, chain, watchedAddrs, utxoSet, mu, obsCreated, obsSpent, qs, lk>>

\* 232, 247: the deferred r.mu.Unlock() and return nil.
UpdateUnlock(p) ==
    /\ rs[p].pc = "updated"
    /\ mu' = [mu EXCEPT !.writer = None]
    /\ rs' = [rs EXCEPT ![p] = [IdleRescan EXCEPT !.pc = "done", !.rest = rs[p].rest]]
    /\ obsCreated' = obsCreated \cup DOMAIN rs[p].foundUTXOs
    /\ obsSpent' = obsSpent \cup (rs[p].spentOutputs
                                    \ {UtxoKey(NullOutPoint.Hash, NullOutPoint.Index)})
    /\ applied' = IF \E q \in DOMAIN rs \ {p} : rs[q].pc \in {"watch", "scan"}
                  THEN [set |-> TRUE, by |-> p, before |-> rs[p].before,
                        found |-> rs[p].foundUTXOs, spent |-> rs[p].spentOutputs]
                  ELSE NoApplied
    /\ UNCHANGED <<node, chainService, resp, wa, resolved, chain, watchedAddrs, utxoSet, qs, lk>>

\* The caller has Rescan's result; the next call may be made.
RescanReturn(p) ==
    /\ rs[p].pc = "done"
    /\ rs' = [rs EXCEPT ![p] = IdleRescan]
    /\ UNCHANGED <<applied, node, chainService, resp, wa, resolved, chain, watchedAddrs, utxoSet, mu, obsCreated, obsSpent, qs, lk>>

\* The steps of a Rescan call once it is made.
RescanRun(p) ==
    \/ RescanWatch(p)
    \/ RescanBestBlock(p)
    \/ ScanSkip(p)
    \/ ScanFetch(p)
    \/ UpdateLock(p)
    \/ InsertFound(p)
    \/ InsertDone(p)
    \/ RemoveSpent(p)
    \/ RemoveDone(p)
    \/ UpdateUnlock(p)
    \/ RescanReturn(p)

\* Rescans, one after the other, over a chain that grows.
NextRescan ==
    \/ MineBlock
    \/ \E p \in Rescanners :
        \/ \E s \in StartHeights, l \in AddrLists : RescanCall(p, s, l)
        \/ RescanRun(p)

SpecRescan == Init /\ [][NextRescan]_vars

\* Two Rescan calls side by side, one for a and one for b, both from height
\* 0, over the chain's first block.
NextConcurrent ==
    \/ \E p \in ConcurrentRescanners :
        \/ \E l \in {<<"a">>, <<"b">>} : RescanCall(p, 0, l)
        \/ RescanRun(p)

SpecConcurrent == Init /\ [][NextConcurrent]_vars

(***************************************************************************)
(* AddUTXO and RemoveUTXO (rescan.go 251-277), each under mu.Lock.         *)
(***************************************************************************)
\* The arguments AddUTXO is called with: copies of t1:0 and t2:1 that differ
\* from what the chain holds, and an outpoint the chain does not have.
AddInputs ==
    {[txHash |-> "t1", vout |-> 0, value |-> 7, addrStr |-> "b",
      scriptPubKey |-> PayToAddrScript("b"), height |-> 0],
     [txHash |-> "t2", vout |-> 1, value |-> 7, addrStr |-> "a",
      scriptPubKey |-> PayToAddrScript("a"), height |-> 0],
     [txHash |-> "t9", vout |-> 1, value |-> 9, addrStr |-> "a",
      scriptPubKey |-> PayToAddrScript("a"), height |-> 1]}

RemoveInputs == {[txid |-> "t1", vout |-> 0], [txid |-> "t9", vout |-> 1]}

\* Variant: AddUTXO writes its key in a format of its own.
AddedOtherKey(ledger, txHash, vout, value, addrStr, scriptPubKey, height) ==
    Put(ledger, txHash \o "-" \o ToString(vout),
        UTXO(txHash, vout, value, addrStr, EncodeToString(scriptPubKey), height))

\* 255-265: the ledger after AddUTXO.
Added(ledger, txHash, vout, value, addrStr, scriptPubKey, height) ==
    Put(ledger, UtxoKey(txHash, vout),
        UTXO(txHash, vout, value, addrStr, EncodeToString(scriptPubKey), height))

\* Variant: RemoveUTXO deletes every entry with the output index.
RemovedByVout(ledger, txid, vout) ==
    [k \in {x \in DOMAIN ledger : ledger[x].Vout # vout} |-> ledger[k]]

\* 274-275: the ledger after RemoveUTXO.
Removed(ledger, txid, vout) == Delete(ledger, UtxoKey(txid, vout))

AddUTXO(a) ==
    /\ LockFree
    /\ utxoSet' = Added(utxoSet, a.txHash, a.vout, a.value, a.addrStr,
                        a.scriptPubKey, a.height)
    /\ UNCHANGED <<applied, node, chainService, resp, wa, resolved, chain, watchedAddrs, mu, rs, qs, lk, obsCreated, obsSpent>>

RemoveUTXO(r) ==
    /\ LockFree
    /\ utxoSet' = Removed(utxoSet, r.txid, r.vout)
    /\ UNCHANGED <<applied, node, chainService, resp, wa, resolved, chain, watchedAddrs, mu, rs, qs, lk, obsCreated, obsSpent>>

(***************************************************************************)
(* GetUTXOs (rescan.go 65-95).                                             *)
(***************************************************************************)
QueryLists == {<<>>, <<"a">>, <<"b">>, <<"a", "b">>, <<"a", "x">>}

\* Variant: the check for the chain service is missing.
QueryCallNoCheck(q, addresses) ==
    /\ qs[q].pc = "idle"
    /\ qs' = [qs EXCEPT ![q] = [IdleQuery EXCEPT !.pc = "watch",
                                                 !.addresses = addresses,
                                                 !.pending = addresses]]
    /\ UNCHANGED <<applied, node, chainService, resp, wa, resolved, chain, watchedAddrs, utxoSet, mu, rs, lk,
                   obsCreated, obsSpent>>

\* 66-68: without a chain service the call ends at once with an error.
QueryCall(q, addresses) ==
    /\ qs[q].pc = "idle"
    /\ qs' = [qs EXCEPT ![q] =
                [IdleQuery EXCEPT !.pc = IF chainService = "nil" THEN "failed" ELSE "watch",
                                  !.err = IF chainService = "nil"
                                          THEN "chain service not initialized" ELSE None,
                                  !.addresses = addresses,
                                  !.pending = addresses]]
    /\ UNCHANGED <<applied, node, chainService, resp, wa, resolved, chain, watchedAddrs, utxoSet, mu, rs, lk, obsCreated, obsSpent>>

\* Variant: the loop checks that the address decodes and registers nothing.
QueryWatchCheckOnly(q) ==
    /\ qs[q].pc = "watch"
    /\ qs[q].pending # <<>>
    /\ LockFree
    /\ LET addrStr == Head(qs[q].pending) IN
        IF WatchError(watchedAddrs, addrStr) # None
        THEN qs' = [qs EXCEPT ![q].pc = "failed",
                              ![q].err = WatchError(watchedAddrs, addrStr)]
        ELSE qs' = [qs EXCEPT ![q].pending = Tail(@)]
    /\ UNCHANGED <<applied, node, chainService, resp, wa, resolved, chain, watchedAddrs, utxoSet, mu, rs, lk,
                   obsCreated, obsSpent>>

\* 71-75: one turn of the registration loop; an undecodable address ends
\* the call with its error and no outputs.
QueryWatch(q) ==
    /\ qs[q].pc = "watch"
    /\ qs[q].pending # <<>>
    /\ LockFree
    /\ LET addrStr == Head(qs[q].pending) IN
        /\ watchedAddrs' = Watched(watchedAddrs, addrStr)
        /\ resolved' = Resolved(resolved, watchedAddrs, addrStr)
        /\ IF WatchError(watchedAddrs, addrStr) # None
           THEN qs' = [qs EXCEPT ![q].pc = "failed",
                                 ![q].err = WatchError(watchedAddrs, addrStr)]
           ELSE qs' = [qs EXCEPT ![q].pending = Tail(@)]
    /\ UNCHANGED <<applied, node, chainService, resp, wa, chain, utxoSet, mu, rs, lk, obsCreated, obsSpent>>

\* 78-81: r.mu.RLock() and utxos := make([]UTXO, 0), a slice that is empty
\* and not nil (made); the range loop will visit the keys of the map.
QueryRLock(q) ==
    /\ qs[q].pc = "watch"
    /\ qs[q].pending = <<>>
    /\ RLockFree
    /\ mu' = [mu EXCEPT !.readers = @ \cup {q}]
    /\ qs' = [qs EXCEPT ![q].pc = "collect",
                        ![q].made = TRUE,
                        ![q].todo = DOMAIN utxoSet,
                        ![q].snapshot = utxoSet]
    /\ UNCHANGED <<applied, node, chainService, resp, wa, resolved, chain, watchedAddrs, utxoSet, rs, lk, obsCreated, obsSpent>>

\* Variant: every entry is appended, whoever owns it.
QueryVisitAll(q) ==
    /\ qs[q].pc = "collect"
    /\ \E k \in qs[q].todo :
        qs' = [qs EXCEPT ![q].todo = @ \ {k},
                         ![q].utxos = IF k \in DOMAIN utxoSet
                                      THEN @ (+) SetToBag({utxoSet[k]}) ELSE @]
    /\ UNCHANGED <<applied, node, chainService, resp, wa, resolved, chain, watchedAddrs, utxoSet, mu, rs, lk, obsCreated, obsSpent>>

\* 87-91: one turn of the loop over the ledger (Go visits a map in any
\* order); the entry is appended when its owning address was requested.
\* The slice is kept as a bag: its order is the order of the visit.
QueryVisit(q) ==
    /\ qs[q].pc = "collect"
    /\ \E k \in qs[q].todo :
        qs' = [qs EXCEPT ![q].todo = @ \ {k},
                         ![q].utxos =
                            IF k \in DOMAIN utxoSet
                               /\ utxoSet[k].Address \in Range(qs[q].addresses)
                            THEN @ (+) SetToBag({utxoSet[k]}) ELSE @]
    /\ UNCHANGED <<applied, node, chainService, resp, wa, resolved, chain, watchedAddrs, utxoSet, mu, rs, lk, obsCreated, obsSpent>>

\* Variant: a query that found nothing starts a rescan for its addresses.
QueryCollectedRescan(q) ==
    /\ qs[q].pc = "collect"
    /\ qs[q].todo = {}
    /\ qs' = [qs EXCEPT ![q].pc = "collected"]
    /\ rs' = [p \in DOMAIN rs |->
                IF qs[q].utxos = EmptyBag /\ rs[p].pc = "idle"
                THEN [IdleRescan EXCEPT !.pc = "watch", !.addresses = qs[q].addresses]
                ELSE rs[p]]
    /\ UNCHANGED <<applied, node, chainService, resp, wa, resolved, chain, watchedAddrs, utxoSet, mu, lk,
                   obsCreated, obsSpent>>

\* 93: the loop is over.
QueryCollected(q) ==
    /\ qs[q].pc = "collect"
    /\ qs[q].todo = {}
    /\ qs' = [qs EXCEPT ![q].pc = "collected"]
    /\ UNCHANGED <<applied, node, chainService, resp, wa, resolved, chain, watchedAddrs, utxoSet, mu, rs, lk, obsCreated, obsSpent>>

\* 79, 94: the deferred r.mu.RUnlock() and return utxos, nil.
QueryReturn(q) ==
    /\ qs[q].pc = "collected"
    /\ mu' = [mu EXCEPT !.readers = @ \ {q}]
    /\ qs' = [qs EXCEPT ![q] = IdleQuery]
    /\ UNCHANGED <<applied, node, chainService, resp, wa, resolved, chain, watchedAddrs, utxoSet, rs, lk, obsCreated, obsSpent>>

\* 72-74: return nil, err; the caller has the error and no outputs.
QueryFailed(q) ==
    /\ qs[q].pc = "failed"
    /\ qs' = [qs EXCEPT ![q] = IdleQuery]
    /\ UNCHANGED <<applied, node, chainService, resp, wa, resolved, chain, watchedAddrs, utxoSet, mu, rs, lk, obsCreated, obsSpent>>

\* The steps of a GetUTXOs call once it is made.
QueryRun(q) ==
    \/ QueryWatch(q)
    \/ QueryRLock(q)
    \/ QueryVisit(q)
    \/ QueryCollected(q)
    \/ QueryReturn(q)
    \/ QueryFailed(q)

\* Queries of a ledger that AddUTXO and RemoveUTXO fill and empty.
NextQuery ==
    \/ \E a \in AddInputs : AddUTXO(a)
    \/ \E r \in RemoveInputs : RemoveUTXO(r)
    \/ \E q \in Queriers :
        \/ \E l \in QueryLists : QueryCall(q, l)
        \/ QueryRun(q)

SpecQuery == Init /\ [][NextQuery]_vars

\* The writers of the ledger: rescans of both addresses from a start
\* height, AddUTXO and RemoveUTXO of outpoints of the chain, over a chain
\* that grows.
NextLedger ==
    \/ MineBlock
    \/ \E p \in Rescanners :
        \/ \E s \in StartHeights : RescanCall(p, s, <<"a", "b">>)
        \/ RescanRun(p)
    \/ \E a \in {x \in AddInputs : x.txHash \in TxIds} : AddUTXO(a)
    \/ \E r \in {x \in RemoveInputs : x.txid \in TxIds} : RemoveUTXO(r)

SpecLedger == Init /\ [][NextLedger]_vars

\* A query running beside the writers, on the chain's first block.
NextLock ==
    \/ \E p \in Rescanners :
        \/ RescanCall(p, 0, <<"a", "b">>)
        \/ RescanRun(p)
    \/ \E a \in AddInputs : AddUTXO(a)
    \/ \E r \in RemoveInputs : RemoveUTXO(r)
    \/ \E q \in Queriers :
        \/ \E l \in {<<"a">>, <<"a", "b">>} : QueryCall(q, l)
        \/ QueryRun(q)

SpecLock == Init /\ [][NextLock]_vars

(***************************************************************************)
(* Node.GetUTXO (node.go, kept in node_test.go 520-663): the point lookup. *)
(***************************************************************************)
\* chainhash.NewHashFromStr: the hash a hex string names, or None.
NewHashFromStr(txid) == IF txid \in {"t1", "t2"} THEN txid ELSE None

LookupTxIds == {"t1", "t2", "zz"}

LookupVouts == {0, 1, 2}

LookupAddrs == {"", "a", "b", "x"}

\* Variant: the check for an empty address is missing.
LookupInputErrorNoAddress(txid, address) ==
    IF chainService = "nil" THEN "chain service not initialized"
    ELSE IF DecodeAddress(address) = None THEN "invalid address"
    ELSE IF NewHashFromStr(txid) = None THEN "invalid txid"
    ELSE None

\* 521-543: the error that ends the call before any chain access, or None.
LookupInputError(txid, address) ==
    IF chainService = "nil" THEN "chain service not initialized"
    ELSE IF address = "" THEN "address is required"
    ELSE IF DecodeAddress(address) = None THEN "invalid address"
    ELSE IF NewHashFromStr(txid) = None THEN "invalid txid"
    ELSE None

\* 520-562: the checks of the arguments, then the tip.  rest tells whether
\* the caller is the REST handler.
LookupEnter(rest, txid, vout, address, startHeight) ==
    /\ lk.pc = "idle"
    /\ LET called == [IdleLookup EXCEPT !.txid = txid, !.vout = vout,
                                        !.address = address,
                                        !.startHeight = startHeight,
                                        !.rest = rest]
       IN IF LookupInputError(txid, address) # None
          THEN lk' = [called EXCEPT !.pc = "done",
                                    !.err = LookupInputError(txid, address)]
          ELSE \/ lk' = [called EXCEPT !.pc = "done",
                                       !.calls = {"BestBlock"},
                                       !.err = "failed to get best block"]
               \/ lk' = [called EXCEPT !.pc = "scan",
                                       !.calls = {"BestBlock"},
                                       !.pkScript = PayToAddrScript(DecodeAddress(address)),
                                       !.endHeight = BestHeight,
                                       !.height = startHeight]
    /\ UNCHANGED <<applied, node, chainService, resp, wa, resolved, chain, watchedAddrs, utxoSet, mu, rs, qs, obsCreated, obsSpent>>

\* Node.GetUTXO called directly.
LookupCall(txid, vout, address, startHeight) ==
    LookupEnter(FALSE, txid, vout, address, startHeight)

\* 620-630: the index of the first input spending the target, or -1.
SpendingInput(tx, targetHash, vout) ==
    LET hits == {i \in DOMAIN tx.TxIn :
                    tx.TxIn[i].Hash = targetHash /\ tx.TxIn[i].Index = vout}
    IN IF hits = {} THEN -1
       ELSE (CHOOSE i \in hits : \A j \in hits : i <= j) - 1

\* Variant: a transaction with the target id is the creation whatever vout is.
LookupTxAnyVout(st, txHash, targetHash, vout, height) ==
    LET tx == MsgTx(txHash)
        created == IF st.foundTx = None /\ txHash = targetHash
                   THEN [st EXCEPT !.foundTx = txHash, !.foundHeight = height]
                   ELSE st
    IN IF created.foundTx # None /\ SpendingInput(tx, targetHash, vout) >= 0
       THEN [created EXCEPT !.spendingTxHash = txHash,
                            !.spendingInputIdx = SpendingInput(tx, targetHash, vout),
                            !.spendingHeight = height]
       ELSE created

\* Variant: the inputs are checked whether or not the creation was found.
LookupTxSpendAlone(st, txHash, targetHash, vout, height) ==
    LET tx == MsgTx(txHash)
        created == IF st.foundTx = None /\ txHash = targetHash /\ vout < Len(tx.TxOut)
                   THEN [st EXCEPT !.foundTx = txHash, !.foundHeight = height]
                   ELSE st
    IN IF SpendingInput(tx, targetHash, vout) >= 0
       THEN [created EXCEPT !.spendingTxHash = txHash,
                            !.spendingInputIdx = SpendingInput(tx, targetHash, vout),
                            !.spendingHeight = height]
       ELSE created

\* Variant: the height of the creation is reported as that of the spend.
LookupTxFoundHeight(st, txHash, targetHash, vout, height) ==
    LET tx == MsgTx(txHash)
        created == IF st.foundTx = None /\ txHash = targetHash /\ vout < Len(tx.TxOut)
                   THEN [st EXCEPT !.foundTx = txHash, !.foundHeight = height]
                   ELSE st
    IN IF created.foundTx # None /\ SpendingInput(tx, targetHash, vout) >= 0
       THEN [created EXCEPT !.spendingTxHash = txHash,
                            !.spendingInputIdx = SpendingInput(tx, targetHash, vout),
                            !.spendingHeight = created.foundHeight]
       ELSE created

\* 606-631: one transaction of a fetched block.
LookupTx(st, txHash, targetHash, vout, height) ==
    LET tx == MsgTx(txHash)
        created == IF st.foundTx = None /\ txHash = targetHash /\ vout < Len(tx.TxOut)
                   THEN [st EXCEPT !.foundTx = txHash, !.foundHeight = height]
                   ELSE st
    IN IF created.foundTx # None /\ SpendingInput(tx, targetHash, vout) >= 0
       THEN [created EXCEPT !.spendingTxHash = txHash,
                            !.spendingInputIdx = SpendingInput(tx, targetHash, vout),
                            !.spendingHeight = height]
       ELSE created

\* 605-632: the transactions of one block, in block order.
RECURSIVE LookupBlock(_, _, _, _, _)
LookupBlock(st, txs, targetHash, vout, height) ==
    IF txs = <<>> THEN st
    ELSE LookupBlock(LookupTx(st, Head(txs), targetHash, vout, height),
                     Tail(txs), targetHash, vout, height)

\* 564-602: a height that is skipped; filter.Match is for the one script.
LookupSkip ==
    /\ lk.pc = "scan"
    /\ lk.height <= lk.endHeight
    /\ \E reason \in SkipReasons(BlockAt(lk.height), <<lk.pkScript>>) :
        lk' = [lk EXCEPT !.height = @ + 1, !.skipped = @ \cup {lk.height},
                         !.last = HeightCalls(reason, "Match"),
                         !.calls = @ \cup ServiceCalls(HeightCalls(reason, "Match"))]
    /\ UNCHANGED <<applied, node, chainService, resp, wa, resolved, chain, watchedAddrs, utxoSet, mu, rs, qs, obsCreated, obsSpent>>

\* Variant: the loop runs on to the tip when the answer is complete.
LookupFetchToTip ==
    /\ lk.pc = "scan"
    /\ lk.height <= lk.endHeight
    /\ LET st == LookupBlock(lk, BlockAt(lk.height), NewHashFromStr(lk.txid),
                             lk.vout, lk.height)
       IN lk' = [st EXCEPT !.fetched = @ \cup {lk.height},
                           !.last = HeightCalls("ok", "Match"),
                           !.calls = @ \cup ServiceCalls(HeightCalls("ok", "Match")),
                           !.height = @ + 1]
    /\ UNCHANGED <<applied, node, chainService, resp, wa, resolved, chain, watchedAddrs, utxoSet, mu, rs, qs, obsCreated, obsSpent>>

\* 604-637: a height whose block is fetched; the loop ends early once the
\* creation and the spend are both known.
LookupFetch ==
    /\ lk.pc = "scan"
    /\ lk.height <= lk.endHeight
    /\ LET st == LookupBlock(lk, BlockAt(lk.height), NewHashFromStr(lk.txid),
                             lk.vout, lk.height)
       IN lk' = [st EXCEPT !.fetched = @ \cup {lk.height},
                           !.last = HeightCalls("ok", "Match"),
                           !.calls = @ \cup ServiceCalls(HeightCalls("ok", "Match")),
                           !.height = IF st.foundTx # None /\ st.spendingTxHash # ""
                                      THEN @ ELSE @ + 1,
                           !.pc = IF st.foundTx # None /\ st.spendingTxHash # ""
                                  THEN "build" ELSE "scan"]
    /\ UNCHANGED <<applied, node, chainService, resp, wa, resolved, chain, watchedAddrs, utxoSet, mu, rs, qs, obsCreated, obsSpent>>

\* Variant: the loop gives up at the tip instead of after it.
LookupExhaustedEarly ==
    /\ lk.pc = "scan"
    /\ lk.height >= lk.endHeight
    /\ lk' = [lk EXCEPT !.pc = "build"]
    /\ UNCHANGED <<applied, node, chainService, resp, wa, resolved, chain, watchedAddrs, utxoSet, mu, rs, qs, obsCreated, obsSpent>>

\* 564 and 638: the loop is left after the height of the tip.
LookupExhausted ==
    /\ lk.pc = "scan"
    /\ lk.height > lk.endHeight
    /\ lk' = [lk EXCEPT !.pc = "build"]
    /\ UNCHANGED <<applied, node, chainService, resp, wa, resolved, chain, watchedAddrs, utxoSet, mu, rs, qs, obsCreated, obsSpent>>

\* UTXOSpendReport, node.go (node_test.go 498-508).
SpendReport(unspent, value, scriptHex, spendingTxID, spendingInput, spendingHeight) ==
    [Unspent |-> unspent, Value |-> value, ScriptPubKey |-> scriptHex,
     SpendingTxID |-> spendingTxID, SpendingInput |-> spendingInput,
     SpendingHeight |-> spendingHeight]

\* 564-638 for the heights whose blocks came: what the loop knows after the
\* heights h..endHeight, the blocks of the heights in fetched being the ones
\* it read.
RECURSIVE LookupFetched(_, _, _, _, _, _)
LookupFetched(st, h, endHeight, fetched, targetHash, vout) ==
    IF h > endHeight THEN st
    ELSE LookupFetched(IF h \in fetched
                       THEN LookupBlock(st, BlockAt(h), targetHash, vout, h)
                       ELSE st,
                       h + 1, endHeight, fetched, targetHash, vout)

\* Variant: an outpoint the ledger holds is reported from the ledger.
BuildReportFromLedger(st) ==
    IF st.spendingTxHash = ""
    THEN IF UtxoKey(st.txid, st.vout) \in DOMAIN utxoSet
         THEN SpendReport(TRUE, utxoSet[UtxoKey(st.txid, st.vout)].Value,
                          utxoSet[UtxoKey(st.txid, st.vout)].ScriptPubKey, "", 0, 0)
         ELSE SpendReport(TRUE, MsgTx(st.foundTx).TxOut[st.vout + 1].Value,
                          EncodeToString(MsgTx(st.foundTx).TxOut[st.vout + 1].PkScript),
                          "", 0, 0)
    ELSE SpendReport(FALSE, 0, "", st.spendingTxHash, st.spendingInputIdx,
                     st.spendingHeight)

\* Variant: the value and the script are filled in before the two cases part.
BuildReportWithValue(st) ==
    IF st.spendingTxHash = ""
    THEN SpendReport(TRUE, MsgTx(st.foundTx).TxOut[st.vout + 1].Value,
                     EncodeToString(MsgTx(st.foundTx).TxOut[st.vout + 1].PkScript),
                     "", 0, 0)
    ELSE SpendReport(FALSE, MsgTx(st.foundTx).TxOut[st.vout + 1].Value,
                     EncodeToString(MsgTx(st.foundTx).TxOut[st.vout + 1].PkScript),
                     st.spendingTxHash, st.spendingInputIdx, st.spendingHeight)

\* Variant: the unspent report is taken from the transaction's first output.
BuildReportFirstOutput(st) ==
    IF st.spendingTxHash = ""
    THEN SpendReport(TRUE, MsgTx(st.foundTx).TxOut[1].Value,
                     EncodeToString(MsgTx(st.foundTx).TxOut[1].PkScript),
                     "", 0, 0)
    ELSE SpendReport(FALSE, 0, "", st.spendingTxHash, st.spendingInputIdx,
                     st.spendingHeight)

\* 640-662: the report, or the error when the creation was never found.
BuildReport(st) ==
    IF st.spendingTxHash = ""
    THEN SpendReport(TRUE, MsgTx(st.foundTx).TxOut[st.vout + 1].Value,
                     EncodeToString(MsgTx(st.foundTx).TxOut[st.vout + 1].PkScript),
                     "", 0, 0)
    ELSE SpendReport(FALSE, 0, "", st.spendingTxHash, st.spendingInputIdx,
                     st.spendingHeight)

LookupBuild ==
    /\ lk.pc = "build"
    /\ IF lk.foundTx = None
       THEN lk' = [lk EXCEPT !.pc = "done", !.last = <<>>, !.err = "UTXO not found"]
       ELSE lk' = [lk EXCEPT !.pc = "done", !.last = <<>>, !.report = BuildReport(lk)]
    /\ UNCHANGED <<applied, node, chainService, resp, wa, resolved, chain, watchedAddrs, utxoSet, mu, rs, qs, obsCreated, obsSpent>>

\* The caller has the answer; the next call may be made.
LookupReturn ==
    /\ \/ lk.pc = "done" /\ ~lk.rest
       \/ lk.pc = "replied"
    /\ lk' = IdleLookup
    /\ UNCHANGED <<applied, node, chainService, resp, wa, resolved, chain, watchedAddrs, utxoSet, mu, rs, qs, obsCreated, obsSpent>>

(***************************************************************************)
(* GET /v1/utxo/{txid}/{vout} (cmd/neutrinod/main.go 358-391).             *)
(***************************************************************************)
VoutStrings == {"0", "1", "x"}

\* strconv.ParseUint(voutStr, 10, 32): the number, or -1 for an error.
ParseUint(voutStr) ==
    CASE voutStr = "0" -> 0
      [] voutStr = "1" -> 1
      [] voutStr = "2" -> 2
      [] OTHER -> -1

\* 358-384: a vout that is no number and a missing address are answered 400
\* at once; otherwise the node is asked.  (A start_height that does not
\* parse counts as 0, so the height arrives here as a number.)
HandleGetUTXO(txid, voutStr, address, startHeight) ==
    LET rejected(msg) ==
            /\ lk.pc = "idle"
            /\ lk' = [IdleLookup EXCEPT !.pc = "replied", !.rest = TRUE,
                                        !.txid = txid, !.address = address,
                                        !.startHeight = startHeight,
                                        !.http = 400, !.httpErr = msg]
            /\ UNCHANGED <<applied, node, chainService, resp, wa, resolved, chain, watchedAddrs, utxoSet, mu, rs, qs,
                           obsCreated, obsSpent>>
    IN IF ParseUint(voutStr) < 0 THEN rejected("invalid vout")
       ELSE IF address = "" THEN rejected("address parameter is required")
       ELSE LookupEnter(TRUE, txid, ParseUint(voutStr), address, startHeight)

\* 385-390: the node's error is answered 500, its report 200.
HandleGetUTXOReply ==
    /\ lk.pc = "done"
    /\ lk.rest
    /\ lk' = [lk EXCEPT !.pc = "replied",
                        !.http = IF lk.err # None THEN 500 ELSE 200,
                        !.httpErr = IF lk.err # None THEN lk.err ELSE ""]
    /\ UNCHANGED <<applied, node, chainService, resp, wa, resolved, chain, watchedAddrs, utxoSet, mu, rs, qs, obsCreated, obsSpent>>

(***************************************************************************)
(* POST /v1/rescan (cmd/neutrinod/main.go 433-459).                        *)
(***************************************************************************)
\* 434-453: a body that is no JSON is answered 400; otherwise a goroutine is
\* started for the rescan.  decodes tells whether json.Decode succeeds.
HandleRescan(p, decodes, startHeight, addresses) ==
    /\ resp.pc = "idle"
    /\ IF ~decodes
       THEN /\ resp' = [pc |-> "replied", handler |-> "rescan", status |-> 400,
                        body |-> "invalid request body", called |-> FALSE]
            /\ rs' = rs
       ELSE /\ rs[p].pc = "idle"
            /\ rs' = [rs EXCEPT ![p] = [IdleRescan EXCEPT !.pc = "spawned",
                                                          !.rest = TRUE,
                                                          !.startHeight = startHeight,
                                                          !.addresses = addresses]]
            /\ resp' = [pc |-> "replying", handler |-> "rescan", status |-> 0,
                        body |-> "", called |-> FALSE]
    /\ UNCHANGED <<applied, node, chainService, wa, resolved, chain, watchedAddrs, utxoSet, mu, qs, lk,
                   obsCreated, obsSpent>>

\* Variant: the handler waits for the rescan and reports its error.
HandleRescanReplyWait ==
    /\ resp.pc = "replying"
    /\ resp.handler = "rescan"
    /\ \E p \in Rescanners :
        /\ rs[p].pc = "done"
        /\ resp' = IF rs[p].err # None
                   THEN [resp EXCEPT !.pc = "replied", !.status = 500, !.body = rs[p].err]
                   ELSE [resp EXCEPT !.pc = "replied", !.status = 200, !.body = "started"]
    /\ UNCHANGED <<applied, node, chainService, wa, resolved, chain, watchedAddrs, utxoSet, mu, rs, qs, lk,
                   obsCreated, obsSpent>>

\* 455-457: the answer, written whatever the goroutine is doing.
HandleRescanReply ==
    /\ resp.pc = "replying"
    /\ resp.handler = "rescan"
    /\ resp' = [resp EXCEPT !.pc = "replied", !.status = 200, !.body = "started"]
    /\ UNCHANGED <<applied, node, chainService, wa, resolved, chain, watchedAddrs, utxoSet, mu, rs, qs, lk,
                   obsCreated, obsSpent>>

\* 449-453 with Node.Rescan (node_test.go 489-496): the goroutine calls the
\* node, which has a rescan manager once it is started; the call's error
\* goes to the log.
RescanGo(p) ==
    /\ rs[p].pc = "spawned"
    /\ rs' = [rs EXCEPT ![p].pc = IF chainService = "nil" THEN "done" ELSE "watch",
                        ![p].err = IF chainService = "nil"
                                   THEN "rescan manager not initialized" ELSE None]
    /\ UNCHANGED <<applied, node, chainService, resp, wa, resolved, chain, watchedAddrs, utxoSet, mu, qs, lk,
                   obsCreated, obsSpent>>

(***************************************************************************)
(* POST /v1/tx/broadcast (cmd/neutrinod/main.go 300-333).                  *)
(***************************************************************************)
\* The byte strings whose hex form a request may carry.
HexBytes == {<<>>, <<1>>, <<10>>}

\* The tx_hex values of the requests: no hex, hex of no bytes, hex of bytes
\* that are no transaction, hex of the transaction t1.
TxHexStrings == {"not_hex", "", "0a", "01"}

\* hex.DecodeString: the bytes whose hex form the string is, or an error.
DecodeString(txHex) ==
    IF \E b \in HexBytes : EncodeToString(b) = txHex
    THEN [err |-> FALSE, bytes |-> CHOOSE b \in HexBytes : EncodeToString(b) = txHex]
    ELSE [err |-> TRUE, bytes |-> <<>>]

\* wire.MsgTx.Deserialize: the transaction (named by its hash), or None.
Deserialize(txBytes) == IF txBytes = <<1>> THEN "t1" ELSE None

\* Variant: only the JSON body is checked before the node is called.
BroadcastRejectJSONOnly(decodes, txHex) ==
    IF ~decodes THEN "invalid request body" ELSE None

\* 305-320: the message of the 400 answer that ends the handler before the
\* node is called, or None.  decodes tells whether json.Decode succeeds.
BroadcastReject(decodes, txHex) ==
    IF ~decodes THEN "invalid request body"
    ELSE IF DecodeString(txHex).err THEN "invalid transaction hex"
    ELSE IF Deserialize(DecodeString(txHex).bytes) = None
         THEN "failed to deserialize transaction"
    ELSE None

\* 300-333 with Node.BroadcastTransaction (node_test.go 461-468): the node
\* is called with the transaction; its error is answered 500, its success
\* 200 with the txid.
HandleBroadcastTransaction(decodes, txHex) ==
    /\ resp.pc = "idle"
    /\ LET reply(status, body, called) ==
               resp' = [pc |-> "replied", handler |-> "broadcast",
                        status |-> status, body |-> body, called |-> called]
       IN IF BroadcastReject(decodes, txHex) # None
          THEN reply(400, BroadcastReject(decodes, txHex), FALSE)
          ELSE IF chainService = "nil"
          THEN reply(500, "chain service not initialized", TRUE)
          ELSE \/ reply(500, "send transaction failed", TRUE)
               \/ reply(200, Deserialize(DecodeString(txHex).bytes), TRUE)
    /\ UNCHANGED <<applied, node, chainService, wa, resolved, chain, watchedAddrs, utxoSet, mu, rs, qs, lk,
                   obsCreated, obsSpent>>

(***************************************************************************)
(* GET /v1/block/{height}/header (cmd/neutrinod/main.go 239-267).          *)
(***************************************************************************)
HeightStrings == {"0", "1", "invalid"}

\* strconv.ParseInt(heightStr, 10, 32): the number, or an error.
ParseInt(heightStr) ==
    CASE heightStr = "0" -> [err |-> FALSE, n |-> 0]
      [] heightStr = "1" -> [err |-> FALSE, n |-> 1]
      [] heightStr = "2" -> [err |-> FALSE, n |-> 2]
      [] OTHER -> [err |-> TRUE, n |-> 0]

\* 239-267 with Node.GetBlockHeader (node_test.go 433-449): a height that is
\* no number is answered 400; the node's error is answered 404, its header
\* 200.
HandleGetBlockHeader(heightStr) ==
    /\ resp.pc = "idle"
    /\ LET reply(status, body, called) ==
               resp' = [pc |-> "replied", handler |-> "header",
                        status |-> status, body |-> body, called |-> called]
       IN IF ParseInt(heightStr).err
          THEN reply(400, "invalid height", FALSE)
          ELSE IF chainService = "nil"
          THEN reply(404, "chain service not initialized", TRUE)
          ELSE IF ParseInt(heightStr).n > BestHeight
          THEN reply(404, "failed to get block hash", TRUE)
          ELSE \/ reply(404, "failed to get block hash", TRUE)
               \/ reply(404, "failed to get block header", TRUE)
               \/ reply(200, heightStr, TRUE)
    /\ UNCHANGED <<applied, node, chainService, wa, resolved, chain, watchedAddrs, utxoSet, mu, rs, qs, lk,
                   obsCreated, obsSpent>>

\* The client has the answer; the next request may come.
HandleReturn ==
    /\ resp.pc = "replied"
    /\ resp' = NoRequest
    /\ UNCHANGED <<applied, node, chainService, wa, resolved, chain, watchedAddrs, utxoSet, mu, rs, qs, lk,
                   obsCreated, obsSpent>>

\* Rescans asked for over REST, over a chain that grows.
NextRescanREST ==
    \/ Start
    \/ MineBlock
    \/ \E p \in Rescanners, d \in BOOLEAN, l \in {<<"a">>, <<"x">>, <<"a", "b">>} :
        HandleRescan(p, d, 0, l)
    \/ HandleRescanReply
    \/ HandleReturn
    \/ \E p \in Rescanners :
        \/ RescanGo(p)
        \/ RescanRun(p)

SpecRescanREST == Init /\ [][NextRescanREST]_vars

\* Requests to the handlers that check their input, well-formed and
\* malformed, over the chain's first block.
NextRequests ==
    \/ Start
    \/ \E d \in BOOLEAN, h \in TxHexStrings : HandleBroadcastTransaction(d, h)
    \/ \E h \in HeightStrings : HandleGetBlockHeader(h)
    \/ \E p \in Rescanners, d \in BOOLEAN : HandleRescan(p, d, 0, <<"a">>)
    \/ HandleRescanReply
    \/ HandleReturn
    \/ \E p \in Rescanners :
        \/ RescanGo(p)
        \/ RescanRun(p)
    \/ \E v \in VoutStrings, a \in {"", "a"} : HandleGetUTXO("t1", v, a, 0)
    \/ LookupSkip
    \/ LookupFetch
    \/ LookupExhausted
    \/ LookupBuild
    \/ HandleGetUTXOReply
    \/ LookupReturn

SpecRequests == Init /\ [][NextRequests]_vars

\* A node from its creation on: created, asked for its status, started,
\* asked again while the chain grows and peers come and go.
NextNode ==
    \/ \E c \in Configs : NewNode(c)
    \/ node.pc = "created" /\ Start
    \/ MineBlock
    \/ PeersChange
    \/ MonitorSync
    \/ GetStatus

SpecNode == InitNode /\ [][NextNode]_vars

\* Lookups through the REST handler, and direct calls without an address.
NextREST ==
    \/ Start
    \/ MineBlock
    \/ \E t \in LookupTxIds, v \in VoutStrings, a \in LookupAddrs, s \in StartHeights :
        HandleGetUTXO(t, v, a, s)
    \/ \E t \in LookupTxIds, v \in LookupVouts, s \in StartHeights :
        LookupCall(t, v, "", s)
    \/ LookupSkip
    \/ LookupFetch
    \/ LookupExhausted
    \/ LookupBuild
    \/ HandleGetUTXOReply
    \/ LookupReturn

SpecREST == Init /\ [][NextREST]_vars

\* WatchAddress beside rescans and queries whose lists hold a good and a
\* bad address, over the chain's first block.
NextWatch ==
    \/ Start
    \/ \E a \in AddrStrings : WatchAddress(a)
    \/ \E p \in Rescanners :
        \/ \E l \in {<<"a">>, <<"x">>, <<"a", "x">>} : RescanCall(p, 0, l)
        \/ RescanRun(p)
    \/ \E q \in Queriers :
        \/ \E l \in {<<"a">>, <<"x">>, <<"a", "x">>} : QueryCall(q, l)
        \/ QueryRun(q)

SpecWatch == Init /\ [][NextWatch]_vars

\* One client that asks for rescans of both addresses and for lookups of
\* t1:0, one request after the other, over a chain that grows.
NextFetch ==
    \/ Start
    \/ MineBlock
    \/ \E p \in Rescanners :
        \/ \E s \in {0, 1} : lk.pc = "idle" /\ RescanCall(p, s, <<"a", "b">>)
        \/ RescanRun(p)
    \/ \E s \in {0, 1} :
        /\ \A p \in Rescanners : rs[p].pc = "idle"
        /\ LookupCall("t1", 0, "a", s)
    \/ LookupSkip
    \/ LookupFetch
    \/ LookupExhausted
    \/ LookupBuild
    \/ LookupReturn

SpecFetch == Init /\ [][NextFetch]_vars

\* The steps of a GetUTXO call once it is made, up to its return.
LookupRun ==
    \/ LookupSkip
    \/ LookupFetch
    \/ LookupExhausted
    \/ LookupBuild

\* A rescan, a lookup and a query side by side, each called again and
\* again, over a chain of two blocks: t1, then t3 and t2.
InitLive ==
    /\ node = NewNodeResult([nil |-> FALSE, Network |-> "regtest", LogLevel |-> "info"])
    /\ chainService \in {"nil", "running"}
    /\ chain = <<<<"t1">>, <<"t3", "t2">>>>
    /\ watchedAddrs = EmptyMap
    /\ utxoSet = EmptyMap
    /\ mu = [writer |-> None, readers |-> {}]
    /\ rs = [p \in ConcurrentRescanners |-> IdleRescan]
    /\ qs = [q \in Queriers |-> IdleQuery]
    /\ lk = IdleLookup
    /\ resp = NoRequest
    /\ wa = NoWatch
    /\ resolved = [a \in AddrStrings |-> 0]
    /\ obsCreated = {}
    /\ obsSpent = {}
    /\ applied = NoApplied

NextLive ==
    \/ \E p \in Rescanners :
        \/ RescanCall(p, 0, <<"a">>)
        \/ RescanRun(p)
    \/ LookupCall("t1", 0, "a", 0)
    \/ LookupRun
    \/ LookupReturn
    \/ \E q \in Queriers :
        \/ QueryCall(q, <<"a">>)
        \/ QueryRun(q)

\* The steps inside the read lock of GetUTXOs, 79-94.
QueryLocked(q) ==
    \/ QueryVisit(q)
    \/ QueryCollected(q)
    \/ QueryReturn(q)

\* Scheduling: a goroutine that can run does run, so every step of a rescan
\* and of a lookup is taken in the end, and who holds the lock leaves it;
\* sync.RWMutex lets no new reader in while a Lock call is waiting, so a
\* waiting Lock is served.  A query is not required to run outside its
\* read lock.
FairLive ==
    /\ \A p \in Rescanners :
        /\ WF_vars(RescanRun(p))
        /\ SF_vars(RescanWatch(p))
        /\ SF_vars(UpdateLock(p))
    /\ WF_vars(LookupRun)
    /\ \A q \in Queriers : WF_vars(QueryLocked(q))

SpecLive == InitLive /\ [][NextLive]_vars /\ FairLive

\* Lookups of outputs of a, beside AddUTXO and RemoveUTXO of t2:1 and
\* WatchAddress of a, over a chain that grows.
NextBypass ==
    \/ Start
    \/ MineBlock
    \/ \E t \in {"t1", "t2"}, v \in {0, 1} : LookupCall(t, v, "a", 0)
    \/ LookupSkip
    \/ LookupFetch
    \/ LookupExhausted
    \/ LookupBuild
    \/ LookupReturn
    \/ \E a \in {x \in AddInputs : x.txHash = "t2"} : AddUTXO(a)
    \/ RemoveUTXO([txid |-> "t2", vout |-> 1])
    \/ WatchAddress("a")

SpecBypass == Init /\ [][NextBypass]_vars

\* Point lookups, one after the other, over a chain that grows.
NextLookup ==
    \/ Start
    \/ MineBlock
    \/ \E t \in LookupTxIds, v \in LookupVouts, a \in LookupAddrs, s \in StartHeights :
        LookupCall(t, v, a, s)
    \/ LookupSkip
    \/ LookupFetch
    \/ LookupExhausted
    \/ LookupBuild
    \/ LookupReturn

SpecLookup == Init /\ [][NextLookup]_vars

(***************************************************************************)
(* The whole service: every operation, by any caller, at any time.         *)
(***************************************************************************)
Next ==
    \/ Start
    \/ MineBlock
    \/ \E addrStr \in AddrStrings : WatchAddress(addrStr)
    \/ \E p \in Rescanners :
        \/ \E s \in StartHeights, l \in AddrLists : RescanCall(p, s, l)
        \/ RescanRun(p)
    \/ \E a \in AddInputs : AddUTXO(a)
    \/ \E r \in RemoveInputs : RemoveUTXO(r)
    \/ \E q \in Queriers :
        \/ \E l \in QueryLists : QueryCall(q, l)
        \/ QueryRun(q)
    \/ \E t \in LookupTxIds, v \in LookupVouts, a \in LookupAddrs, s \in StartHeights :
        LookupCall(t, v, a, s)
    \/ \E t \in LookupTxIds, v \in VoutStrings, a \in LookupAddrs, s \in StartHeights :
        HandleGetUTXO(t, v, a, s)
    \/ LookupSkip
    \/ LookupFetch
    \/ LookupExhausted
    \/ LookupBuild
    \/ HandleGetUTXOReply
    \/ LookupReturn
    \/ \E d \in BOOLEAN, h \in TxHexStrings : HandleBroadcastTransaction(d, h)
    \/ \E h \in HeightStrings : HandleGetBlockHeader(h)
    \/ \E p \in Rescanners, d \in BOOLEAN, s \in StartHeights, l \in AddrLists :
        HandleRescan(p, d, s, l)
    \/ HandleRescanReply
    \/ \E p \in Rescanners : RescanGo(p)
    \/ HandleReturn
    \/ PeersChange
    \/ MonitorSync
    \/ GetStatus

Spec == Init /\ [][Next]_vars

(***************************************************************************)
(* Properties of the rescan and of its ledger update.                      *)
(***************************************************************************)
\* C1: at every quiescent point the ledger holds exactly the outputs some
\* completed rescan recorded as created and no completed rescan recorded as
\* spent, whatever the order in which the creation and the spend were seen.
C1_LedgerIsCreatedNotSpent ==
    (\A p \in Rescanners : rs[p].pc = "idle")
        => DOMAIN utxoSet = obsCreated \ obsSpent

\* C2: once a rescan's update is applied, an outpoint the scan saw both
\* created and spent is absent from the ledger, a stale copy included, and
\* no query returns it, for any address list.
C2_SameRangeNetZero ==
    \A p \in Rescanners :
        rs[p].pc = "updated" =>
            \A k \in DOMAIN rs[p].foundUTXOs \cap rs[p].spentOutputs :
                /\ k \notin DOMAIN utxoSet
                /\ \A l \in AddrLists :
                    \A u \in Collect(utxoSet, l) : UtxoKey(u.TxID, u.Vout) # k

C2_Witness ==
    \E p \in Rescanners :
        /\ rs[p].pc = "updated"
        /\ \E k \in DOMAIN rs[p].foundUTXOs \cap rs[p].spentOutputs :
            k \in DOMAIN rs[p].before

\* C3: a query never observes a half-applied update.  While a GetUTXOs call
\* reads the ledger no rescan is inside its update, and what the call
\* returns is what the ledger held at one moment, the moment of its RLock.
C3_QueryNeverSeesHalfApplied ==
    \A q \in Queriers :
        /\ qs[q].pc \in {"collect", "collected"} =>
              /\ mu.writer = None
              /\ \A p \in Rescanners : rs[p].pc \notin {"insert", "remove", "updated"}
        /\ qs[q].pc = "collected" =>
              BagToSet(qs[q].utxos) = Collect(qs[q].snapshot, qs[q].addresses)

\* A query has collected outputs while a rescan that has changes to make
\* waits for the lock.
C3_Witness ==
    \E q \in Queriers, p \in Rescanners :
        /\ qs[q].pc = "collected"
        /\ qs[q].utxos # EmptyBag
        /\ rs[p].pc = "scan"
        /\ rs[p].height > rs[p].endHeight
        /\ Apply(utxoSet, rs[p].foundUTXOs, rs[p].spentOutputs) # utxoSet

\* C4: a scan never partially commits.  No step of a rescan before its
\* update changes the ledger; the update begins after the last height of the
\* range, runs under the write lock with no other writer in between, and
\* happens once per rescan.
C4_NoPartialCommit ==
    [][\A p \in Rescanners :
          /\ (rs'[p] # rs[p] /\ rs[p].pc \in {"idle", "watch", "scan", "done"})
                => utxoSet' = utxoSet
          /\ (rs[p].pc = "scan" /\ rs'[p].pc = "insert")
                => (rs[p].height = rs[p].endHeight + 1 \/ rs[p].startHeight > rs[p].endHeight)
          /\ rs[p].pc \in {"insert", "remove", "updated"}
                => /\ mu.writer = p
                   /\ rs'[p] = rs[p] => utxoSet' = utxoSet
          /\ (rs[p].pc = "updated" /\ rs'[p] # rs[p])
                => (rs'[p].pc = "done" /\ utxoSet' = utxoSet)]_vars

\* The height loop is under way and has found an output the ledger lacks.
C4_Witness ==
    \E p \in Rescanners :
        /\ rs[p].pc = "scan"
        /\ rs[p].height <= rs[p].endHeight
        /\ \E k \in DOMAIN rs[p].foundUTXOs : k \notin DOMAIN utxoSet

\* C5: the ledger update is idempotent.  The update a rescan has just made
\* is the function Apply of the ledger before it, and applying the same
\* (found, spent) pair once more changes nothing.
C5_UpdateIdempotent ==
    \A p \in Rescanners :
        rs[p].pc = "updated" =>
            /\ utxoSet = Apply(rs[p].before, rs[p].foundUTXOs, rs[p].spentOutputs)
            /\ Apply(Apply(rs[p].before, rs[p].foundUTXOs, rs[p].spentOutputs),
                     rs[p].foundUTXOs, rs[p].spentOutputs)
               = Apply(rs[p].before, rs[p].foundUTXOs, rs[p].spentOutputs)

\* An update that inserted one output and deleted another.
C5_Witness ==
    \E p \in Rescanners :
        /\ rs[p].pc = "updated"
        /\ \E k \in DOMAIN utxoSet : k \notin DOMAIN rs[p].before
        /\ \E k \in DOMAIN rs[p].before : k \notin DOMAIN utxoSet

\* C6: a successful GetUTXOs(S) returns exactly the ledger entries whose
\* owning address is in S, each once, and none owned by another address.
C6_QueryExactlyOwned ==
    \A q \in Queriers :
        qs[q].pc = "collected" =>
            /\ BagToSet(qs[q].utxos)
               = {utxoSet[k] : k \in {x \in DOMAIN utxoSet :
                                        utxoSet[x].Address \in Range(qs[q].addresses)}}
            /\ \A u \in BagToSet(qs[q].utxos) :
                /\ CopiesIn(u, qs[q].utxos) = 1
                /\ u.Address \in Range(qs[q].addresses)

\* A query that returned an output and left another address's output out.
C6_Witness ==
    \E q \in Queriers :
        /\ qs[q].pc = "collected"
        /\ qs[q].utxos # EmptyBag
        /\ \E k \in DOMAIN utxoSet : utxoSet[k].Address \notin Range(qs[q].addresses)

\* C7: the ledger holds at most one entry per outpoint, and AddUTXO of an
\* outpoint already present replaces its record and adds no entry.
C7_OutpointUnique ==
    /\ [](\A k1, k2 \in DOMAIN utxoSet :
            (utxoSet[k1].TxID = utxoSet[k2].TxID /\ utxoSet[k1].Vout = utxoSet[k2].Vout)
                => k1 = k2)
    /\ [][\A a \in AddInputs :
            AddUTXO(a) =>
                LET k == UtxoKey(a.txHash, a.vout) IN
                /\ k \in DOMAIN utxoSet'
                /\ utxoSet'[k] = UTXO(a.txHash, a.vout, a.value, a.addrStr,
                                      EncodeToString(a.scriptPubKey), a.height)
                /\ DOMAIN utxoSet' = DOMAIN utxoSet \cup {k}
                /\ \A x \in DOMAIN utxoSet \ {k} : utxoSet'[x] = utxoSet[x]]_vars

\* The ledger holds a record AddUTXO wrote over the one a rescan stored.
C7_Witness ==
    /\ "t1:0" \in obsCreated
    /\ "t1:0" \in DOMAIN utxoSet
    /\ utxoSet["t1:0"].Value = 7
    /\ Cardinality(DOMAIN utxoSet) > 1

\* C8: a block in which one transaction creates an outpoint paying a watched
\* script and another spends it: a scan that fetched the block records the
\* outpoint as spent and its update leaves the outpoint out of the ledger,
\* wherever the two transactions stand and in whatever order the scripts are.
C8_SameBlockCreateSpend ==
    \A p \in Rescanners :
        rs[p].pc = "updated" =>
            \A h \in rs[p].fetched :
                \A i, j \in DOMAIN BlockAt(h) :
                    \A o \in DOMAIN MsgTx(BlockAt(h)[i]).TxOut :
                        (/\ i # j
                         /\ MsgTx(BlockAt(h)[i]).TxOut[o].PkScript \in Range(rs[p].scripts)
                         /\ [Hash |-> BlockAt(h)[i], Index |-> o - 1]
                                \in Range(MsgTx(BlockAt(h)[j]).TxIn))
                        => /\ UtxoKey(BlockAt(h)[i], o - 1) \in rs[p].spentOutputs
                           /\ UtxoKey(BlockAt(h)[i], o - 1) \notin DOMAIN utxoSet

\* A scan of the single height whose block creates t1:0 and, two
\* transactions later, spends it, with two scripts watched.
C8_Witness ==
    \E p \in Rescanners :
        /\ rs[p].pc = "updated"
        /\ rs[p].startHeight = rs[p].endHeight
        /\ rs[p].fetched = {rs[p].startHeight}
        /\ BlockAt(rs[p].startHeight) = <<"t1", "t3", "t2">>
        /\ Len(rs[p].scripts) = 2
        /\ "t1:0" \in rs[p].spentOutputs

\* C9: the life of an output across rescans.  A rescan records as found the
\* outputs paying a watched script in the blocks it fetched and as spent the
\* inputs of those blocks; its update stores the found outputs it did not see
\* spent, removes the spent ones, and leaves every other record as it was.
C9_OutputLifecycle ==
    \A p \in Rescanners :
        rs[p].pc = "updated" =>
            LET found == rs[p].foundUTXOs
                spent == rs[p].spentOutputs
                txsAt == UNION {Range(BlockAt(h)) : h \in rs[p].fetched}
            IN  /\ DOMAIN found =
                      UNION {{UtxoKey(t, o - 1) :
                                o \in {x \in DOMAIN MsgTx(t).TxOut :
                                         MsgTx(t).TxOut[x].PkScript \in Range(rs[p].scripts)}}
                             : t \in txsAt}
                /\ spent = UNION {{UtxoKey(MsgTx(t).TxIn[i].Hash, MsgTx(t).TxIn[i].Index)
                                     : i \in DOMAIN MsgTx(t).TxIn} : t \in txsAt}
                /\ \A k \in DOMAIN found \ spent :
                      k \in DOMAIN utxoSet /\ utxoSet[k] = found[k]
                /\ \A k \in spent : k \notin DOMAIN utxoSet
                /\ \A k \in DOMAIN rs[p].before \ spent :
                      k \in DOMAIN utxoSet /\ utxoSet[k] = rs[p].before[k]
                /\ DOMAIN utxoSet \subseteq DOMAIN rs[p].before \cup DOMAIN found

\* A rescan removed an output an earlier rescan had stored and kept another.
C9_Witness ==
    \E p \in Rescanners :
        /\ rs[p].pc = "updated"
        /\ \E k \in DOMAIN rs[p].before \cap rs[p].spentOutputs : k \in obsCreated
        /\ \E k \in DOMAIN rs[p].before : k \in DOMAIN utxoSet

(***************************************************************************)
(* Properties of the point lookup.                                         *)
(***************************************************************************)
\* C10: the spent case.  The target (T, vout) is created at a height hc at
\* or after startHeight and spent, by input i of S, at a height hs of the
\* range; neither height was skipped.  Then the lookup reports unspent=false
\* with S, i and hs.
C10_LookupSpent ==
    (lk.pc = "done" /\ "BestBlock" \in lk.calls
                    /\ lk.err # "failed to get best block") =>
        \A hc, hs \in lk.startHeight..lk.endHeight :
            \A c \in DOMAIN BlockAt(hc), n \in DOMAIN BlockAt(hs) :
                \A i \in DOMAIN MsgTx(BlockAt(hs)[n]).TxIn :
                    (/\ BlockAt(hc)[c] = lk.txid
                     /\ lk.vout < Len(MsgTx(lk.txid).TxOut)
                     /\ MsgTx(BlockAt(hs)[n]).TxIn[i] = [Hash |-> lk.txid, Index |-> lk.vout]
                     /\ hc \notin lk.skipped
                     /\ hs \notin lk.skipped)
                    => /\ lk.err = None
                       /\ lk.report = SpendReport(FALSE, 0, "", BlockAt(hs)[n], i - 1, hs)

\* A lookup of t1:0 that found the creation and, at a later height, the spend.
C10_Witness ==
    /\ lk.pc = "done"
    /\ lk.err = None
    /\ lk.report.Unspent = FALSE
    /\ lk.address = "a"
    /\ lk.report.SpendingTxID = "t2"
    /\ lk.report.SpendingInput = 1
    /\ lk.report.SpendingHeight > lk.foundHeight
    /\ lk.foundHeight > lk.startHeight

\* C11: the unspent case.  The block creating (T, vout) was fetched and no
\* fetched block holds an input referencing (T, vout).  Then the lookup
\* reports unspent=true with the value and the script (in hex) of output
\* vout of T, and no spending field.
C11_LookupUnspent ==
    (lk.pc = "done" /\ "BestBlock" \in lk.calls
                    /\ lk.err # "failed to get best block") =>
        \A hc \in lk.fetched :
            \A c \in DOMAIN BlockAt(hc) :
                (/\ BlockAt(hc)[c] = lk.txid
                 /\ lk.vout < Len(MsgTx(lk.txid).TxOut)
                 /\ \A h \in lk.fetched :
                       \A n \in DOMAIN BlockAt(h) :
                          [Hash |-> lk.txid, Index |-> lk.vout]
                              \notin Range(MsgTx(BlockAt(h)[n]).TxIn))
                => /\ lk.err = None
                   /\ lk.report =
                        SpendReport(TRUE, MsgTx(lk.txid).TxOut[lk.vout + 1].Value,
                                    EncodeToString(MsgTx(lk.txid).TxOut[lk.vout + 1].PkScript),
                                    "", 0, 0)

\* A lookup of t2:1, the second output of t2, that scanned on to a higher tip.
C11_Witness ==
    /\ lk.pc = "done"
    /\ lk.err = None
    /\ lk.txid = "t2"
    /\ lk.vout = 1
    /\ lk.report.Unspent = TRUE
    /\ lk.report.Value = 20
    /\ lk.report.ScriptPubKey = "0a"
    /\ lk.endHeight > lk.foundHeight

\* C12: a report is never both.  Every report a lookup returns is either
\* unspent, with the value and script of the output and every spending field
\* empty, or spent, with the spending transaction, input and height it
\* captured and the value and script empty.
C12_ReportNeverBoth ==
    (lk.pc = "done" /\ lk.err = None) =>
        \/ /\ lk.report.Unspent = TRUE
           /\ lk.report.Value = MsgTx(lk.foundTx).TxOut[lk.vout + 1].Value
           /\ lk.report.ScriptPubKey # ""
           /\ lk.report.SpendingTxID = ""
           /\ lk.report.SpendingInput = 0
           /\ lk.report.SpendingHeight = 0
        \/ /\ lk.report.Unspent = FALSE
           /\ lk.report.SpendingTxID = lk.spendingTxHash
           /\ lk.report.SpendingTxID # ""
           /\ lk.report.SpendingInput = lk.spendingInputIdx
           /\ lk.report.SpendingHeight = lk.spendingHeight
           /\ lk.report.Value = 0
           /\ lk.report.ScriptPubKey = ""

\* A spent report for an output whose value (50) the lookup had seen.
C12_Witness ==
    /\ lk.pc = "done"
    /\ lk.err = None
    /\ lk.report.Unspent = FALSE
    /\ lk.foundTx = "t1"
    /\ MsgTx(lk.foundTx).TxOut[lk.vout + 1].Value = 50
    /\ lk.report.SpendingHeight > 0

(***************************************************************************)
(* Properties of the lookup's argument checks.                             *)
(***************************************************************************)
\* C13 as stated: every lookup with an empty address fails with the
\* missing-address error before any call to the chain service, and the REST
\* handler answers 400 without asking the node.
C13_MissingAddressAlways ==
    (lk.pc \in {"done", "replied"} /\ lk.address = "") =>
        /\ lk.calls = {}
        /\ lk.fetched = {} /\ lk.skipped = {}
        /\ IF lk.rest THEN lk.pc = "replied" /\ lk.http = 400 /\ lk.err = None
           ELSE lk.err = "address is required"

\* C13, amended: a lookup with an empty address makes no call to the chain
\* service and visits no height.  Called on the node it fails with the
\* missing-address error when the chain service is initialised and with
\* "chain service not initialized" when it is not; the REST handler answers
\* 400 and the node is never asked.
C13_MissingAddress ==
    /\ []((lk.pc # "idle" /\ lk.address = "") =>
            /\ lk.pc \in {"done", "replied"}
            /\ lk.calls = {}
            /\ lk.fetched = {} /\ lk.skipped = {}
            /\ lk.report = None
            /\ IF lk.rest THEN lk.pc = "replied" /\ lk.http = 400 /\ lk.err = None
               ELSE lk.err \in {"address is required", "chain service not initialized"})
    /\ [][(lk.pc = "idle" /\ lk'.pc = "done" /\ lk'.address = "") =>
            lk'.err = IF chainService = "nil" THEN "chain service not initialized"
                      ELSE "address is required"]_vars

\* The node refused a lookup without address of an output that a started
\* node could have found on the chain.
C13_Witness ==
    /\ lk.pc = "done"
    /\ lk.address = ""
    /\ lk.err = "address is required"
    /\ chainService = "running"
    /\ lk.txid = "t1" /\ lk.vout = 0
    /\ \E h \in lk.startHeight..BestHeight : "t1" \in Range(BlockAt(h))

\* C14: range exhaustion.  A lookup that fetched no block creating the
\* target fails with "UTXO not found", and a lookup fails so only when every
\* height from startHeight up to the tip was visited; while a height of the
\* range is still to come, no error is set.
C14_RangeExhaustion ==
    /\ (lk.pc = "done" /\ "BestBlock" \in lk.calls
                       /\ lk.err # "failed to get best block") =>
        /\ (\A h \in lk.fetched :
               ~(lk.txid \in Range(BlockAt(h)) /\ lk.vout < Len(MsgTx(lk.txid).TxOut)))
           => lk.err = "UTXO not found"
        /\ lk.err = "UTXO not found" =>
              /\ lk.fetched \cup lk.skipped = lk.startHeight..lk.endHeight
              /\ lk.height > lk.endHeight
    /\ (lk.pc \in {"scan", "build"} /\ lk.height <= lk.endHeight) =>
          /\ lk.err = None
          /\ lk.pc = "build" => lk.foundTx # None

\* A lookup of t1:0 from a height after its creation: the heights up to
\* the tip were all visited, one of them by fetching its block.
C14_Witness ==
    /\ lk.pc = "done"
    /\ lk.err = "UTXO not found"
    /\ lk.txid = "t1" /\ lk.vout = 0
    /\ lk.startHeight < lk.endHeight
    /\ lk.fetched # {}
    /\ lk.skipped # {}
    /\ lk.fetched \cup lk.skipped = lk.startHeight..lk.endHeight

\* C15: early termination.  Once the creation and the spend of the target
\* are both known the loop is over: no height above the spending height is
\* visited, by a fetch or by a skip, however high the tip is, and the height
\* the lookup stands at is the spending height.
C15_EarlyTermination ==
    (lk.pc \in {"scan", "build", "done"} /\ lk.foundTx # None
                                         /\ lk.spendingTxHash # "") =>
        /\ lk.pc # "scan"
        /\ lk.height = lk.spendingHeight
        /\ \A h \in lk.fetched \cup lk.skipped : h <= lk.spendingHeight
        /\ lk.spendingHeight \in lk.fetched

\* A spent report for t1:0 while the tip was above the spending height.
C15_Witness ==
    /\ lk.pc = "done"
    /\ lk.err = None
    /\ lk.report.Unspent = FALSE
    /\ lk.txid = "t1" /\ lk.vout = 0
    /\ lk.foundHeight < lk.spendingHeight
    /\ lk.endHeight > lk.spendingHeight
    /\ lk.fetched \cup lk.skipped = lk.startHeight..lk.spendingHeight

(***************************************************************************)
(* Properties of the height loops of scanBlocks and Node.GetUTXO.          *)
(***************************************************************************)
\* C16: full blocks are fetched only on a filter match.  In the calls a
\* rescan or a lookup makes for one height, GetBlock comes only after
\* GetBlockHash succeeded, GetCFilter returned a filter and the filter
\* matched; a turn whose hash fails, whose filter fails or is nil, or whose
\* match fails or is negative holds no GetBlock.  A block counts as fetched
\* only in a turn that ends with a successful GetBlock.
C16_BlockOnlyOnMatch ==
    /\ [](\A t \in {rs[p].last : p \in Rescanners} \cup {lk.last} :
            \A i \in DOMAIN t :
                t[i].call = "GetBlock" =>
                    /\ i = 4
                    /\ t[1] = [call |-> "GetBlockHash", result |-> "ok"]
                    /\ t[2] = [call |-> "GetCFilter", result |-> "ok"]
                    /\ t[3].call \in {"Match", "MatchAny"}
                    /\ t[3].result = "true")
    /\ [][LET got(t) == [call |-> "GetBlock", result |-> "ok"] \in Range(t)
          IN /\ \A p \in Rescanners :
                  /\ rs'[p].fetched \subseteq rs[p].fetched \/ got(rs'[p].last)
                  /\ (rs'[p].last # <<>> /\ ~got(rs'[p].last)) =>
                        /\ rs'[p].fetched = rs[p].fetched
                        /\ rs'[p].foundUTXOs = rs[p].foundUTXOs
                        /\ rs'[p].spentOutputs = rs[p].spentOutputs
             /\ lk'.fetched \subseteq lk.fetched \/ got(lk'.last)
             /\ (lk'.last # <<>> /\ ~got(lk'.last)) =>
                   /\ lk'.fetched = lk.fetched
                   /\ lk'.foundTx = lk.foundTx
                   /\ lk'.spendingTxHash = lk.spendingTxHash]_vars

\* A rescan that fetched the block of one height and then passed a height
\* whose filter held none of its scripts.
C16_Witness ==
    \E p \in Rescanners :
        /\ rs[p].pc = "scan"
        /\ rs[p].fetched # {}
        /\ rs[p].height - 1 \notin rs[p].fetched
        /\ ~MatchAny(BlockAt(rs[p].height - 1), rs[p].scripts)
        /\ rs[p].last = HeightCalls("nomatch", "MatchAny")

\* C17: per-height failures are non-fatal skips.  A turn in which
\* GetBlockHash, GetCFilter, the match or GetBlock fails leaves the rescan in
\* its loop at the next height, with no error and with what it has collected
\* intact.  When the update is made, the ledger has received everything the
\* blocks of the other heights hold, and the rescan then returns success.
C17_FailuresAreSkips ==
    /\ [](\A p \in Rescanners :
            /\ rs[p].pc \in {"scan", "insert", "remove", "updated"} => rs[p].err = None
            /\ rs[p].pc = "updated" =>
                  LET all == ScanFetched([spentOutputs |-> {}, foundUTXOs |-> EmptyMap],
                                         rs[p].startHeight, rs[p].endHeight,
                                         rs[p].fetched, rs[p].addrToScript)
                  IN /\ rs[p].foundUTXOs = all.foundUTXOs
                     /\ rs[p].spentOutputs = all.spentOutputs
                     /\ utxoSet = Apply(rs[p].before, all.foundUTXOs, all.spentOutputs))
    /\ [][\A p \in Rescanners :
            /\ (/\ rs[p].pc = "scan"
                /\ rs'[p] # rs[p]
                /\ rs'[p].last \in {HeightCalls(r, "MatchAny") :
                                       r \in {"hash", "filter", "matcherr", "block"}})
               => /\ rs'[p] = [rs[p] EXCEPT !.height = @ + 1, !.last = rs'[p].last]
                  /\ utxoSet' = utxoSet
            /\ (rs[p].pc = "updated" /\ rs'[p] # rs[p])
               => (rs'[p].pc = "done" /\ rs'[p].err = None)]_vars

\* An update made by a rescan that lost a height whose filter holds one of
\* its scripts and yet stored what the block of another height pays.
C17_Witness ==
    \E p \in Rescanners :
        /\ rs[p].pc = "updated"
        /\ \E h \in rs[p].startHeight..rs[p].endHeight :
              /\ h \notin rs[p].fetched
              /\ MatchAny(BlockAt(h), rs[p].scripts)
        /\ rs[p].fetched # {}
        /\ \E k \in DOMAIN rs[p].foundUTXOs :
              k \in DOMAIN utxoSet /\ k \notin DOMAIN rs[p].before

(***************************************************************************)
(* Properties of the address lists of Rescan, GetUTXOs and WatchAddress.   *)
(***************************************************************************)
\* C18 as stated: a rescan asked for with an empty address list is
\* rejected with the no-scripts error; no height is examined and the ledger
\* is unchanged.
C18_EmptyListIsNoScripts ==
    [][\A p \in Rescanners :
          (/\ rs[p].pc = "watch"
           /\ rs[p].addresses = <<>> /\ rs[p].addrs = <<>>
           /\ rs'[p] # rs[p])
          => /\ rs'[p].pc = "done"
             /\ rs'[p].err = "no valid scripts to scan for"
             /\ rs'[p].fetched = {} /\ rs'[p].last = <<>>
             /\ utxoSet' = utxoSet]_vars

\* C18, amended: a rescan asked for with an empty address list ends up
\* front without the no-scripts error: with "chain service not initialized"
\* when there is no chain service and with success otherwise.  No height is
\* examined, nothing is registered and the ledger is unchanged.
C18_EmptyListEndsUpFront ==
    [][\A p \in Rescanners :
          /\ (rs[p].pc = "idle" /\ rs'[p].pc # "idle" /\ rs'[p].addresses = <<>>)
             => /\ IF chainService = "nil"
                   THEN rs'[p] = [IdleRescan EXCEPT
                                     !.pc = "done",
                                     !.err = "chain service not initialized",
                                     !.startHeight = rs'[p].startHeight]
                   ELSE rs'[p] = [IdleRescan EXCEPT
                                     !.pc = "watch",
                                     !.startHeight = rs'[p].startHeight]
                /\ utxoSet' = utxoSet /\ watchedAddrs' = watchedAddrs
          /\ (/\ rs[p].pc = "watch"
              /\ rs[p].addresses = <<>> /\ rs[p].addrs = <<>>
              /\ rs'[p] # rs[p])
             => /\ rs'[p] = [IdleRescan EXCEPT !.pc = "done",
                                               !.startHeight = rs[p].startHeight]
                /\ utxoSet' = utxoSet /\ watchedAddrs' = watchedAddrs
                /\ mu' = mu]_vars

\* A rescan without addresses has returned success; its start height is on
\* the chain, so a scan would have had heights to examine.
C18_Witness ==
    \E p \in Rescanners :
        /\ rs[p].pc = "done"
        /\ rs[p].err = None
        /\ rs[p].addrs = <<>>
        /\ rs[p].startHeight > 0
        /\ rs[p].startHeight <= BestHeight
        /\ chainService = "running"

\* C19: WatchAddress is idempotent.  A call for an address that is already
\* watched returns success and leaves the registry and the ledger as they
\* were; after a call that returned success the address is watched, then
\* and ever after.
C19_WatchIdempotent ==
    /\ [](wa.addrStr # "" =>
            /\ wa.addrStr \in DOMAIN wa.before => wa.err = None
            /\ wa.err = None => wa.addrStr \in DOMAIN watchedAddrs)
    /\ [][wa' # wa =>
            /\ wa'.before = watchedAddrs
            /\ utxoSet' = utxoSet
            /\ wa'.addrStr \in DOMAIN watchedAddrs =>
                  /\ wa'.err = None
                  /\ watchedAddrs' = watchedAddrs
            /\ wa'.err = None =>
                  /\ wa'.addrStr \in DOMAIN watchedAddrs'
                  /\ \A x \in DOMAIN watchedAddrs :
                        x \in DOMAIN watchedAddrs' /\ watchedAddrs'[x] = watchedAddrs[x]]_vars

\* Address a, already watched, was registered again while the ledger held
\* an output.
C19_Witness ==
    /\ wa.addrStr = "a"
    /\ "a" \in DOMAIN wa.before
    /\ wa.err = None
    /\ watchedAddrs = wa.before
    /\ DOMAIN utxoSet # {}

\* C20 as stated: WatchAddress of an address that does not decode returns
\* the error and leaves the registry as it was; a Rescan or GetUTXOs call
\* with such an address in its list fails with that error, having scanned
\* nothing and collected nothing.
C20_MalformedAlwaysInvalid ==
    /\ (wa.addrStr # "" /\ DecodeAddress(wa.addrStr) = None) =>
          /\ wa.err = "invalid address"
          /\ wa.addrStr \notin DOMAIN watchedAddrs
    /\ \A p \in Rescanners :
          (\E i \in DOMAIN rs[p].addresses : DecodeAddress(rs[p].addresses[i]) = None) =>
              /\ rs[p].pc \in {"watch", "done"}
              /\ rs[p].fetched = {} /\ rs[p].last = <<>> /\ rs[p].scripts = <<>>
              /\ rs[p].pc = "done" => rs[p].err = "invalid address"
    /\ \A q \in Queriers :
          (\E i \in DOMAIN qs[q].addresses : DecodeAddress(qs[q].addresses[i]) = None) =>
              /\ qs[q].pc \in {"watch", "failed"}
              /\ qs[q].utxos = EmptyBag
              /\ qs[q].pc = "failed" => qs[q].err = "invalid address"

\* C20, amended: an address that does not decode is rejected, never
\* dropped or stored.  WatchAddress returns the error and leaves the
\* registry as it was.  A Rescan or GetUTXOs call with such an address in
\* its list fails, with "chain service not initialized" when there is no
\* chain service and with the address's error otherwise, at the turn of the
\* registration loop that meets it; the call starts no scan, returns no
\* outputs and none of its steps changes the ledger.
C20_MalformedRejected ==
    /\ [](/\ \A k \in DOMAIN watchedAddrs : DecodeAddress(k) # None
          /\ (wa.addrStr # "" /\ DecodeAddress(wa.addrStr) = None) =>
                wa.err = "invalid address"
          /\ \A p \in Rescanners :
                (\E i \in DOMAIN rs[p].addresses :
                    DecodeAddress(rs[p].addresses[i]) = None) =>
                    /\ rs[p].pc \in {"watch", "done"}
                    /\ rs[p].fetched = {} /\ rs[p].last = <<>> /\ rs[p].scripts = <<>>
                    /\ rs[p].foundUTXOs = EmptyMap /\ rs[p].spentOutputs = {}
                    /\ rs[p].pc = "done" =>
                          rs[p].err \in {"invalid address", "chain service not initialized"}
          /\ \A q \in Queriers :
                (\E i \in DOMAIN qs[q].addresses :
                    DecodeAddress(qs[q].addresses[i]) = None) =>
                    /\ qs[q].pc \in {"watch", "failed"}
                    /\ qs[q].utxos = EmptyBag
                    /\ qs[q].pc = "failed" =>
                          qs[q].err \in {"invalid address", "chain service not initialized"})
    /\ [][/\ (wa' # wa /\ DecodeAddress(wa'.addrStr) = None) =>
                /\ wa'.err = "invalid address"
                /\ watchedAddrs' = watchedAddrs
                /\ utxoSet' = utxoSet
          /\ \A p \in Rescanners :
                /\ (/\ rs[p].pc = "idle" /\ rs'[p].pc # "idle"
                    /\ \E i \in DOMAIN rs'[p].addresses :
                          DecodeAddress(rs'[p].addresses[i]) = None)
                   => /\ utxoSet' = utxoSet
                      /\ IF chainService = "nil"
                         THEN /\ rs'[p].pc = "done"
                              /\ rs'[p].err = "chain service not initialized"
                         ELSE rs'[p].pc = "watch" /\ rs'[p].err = None
                /\ (/\ rs[p].pc = "watch" /\ rs'[p] # rs[p]
                    /\ rs[p].addresses # <<>>
                    /\ DecodeAddress(Head(rs[p].addresses)) = None)
                   => /\ rs'[p] = [rs[p] EXCEPT !.pc = "done", !.err = "invalid address"]
                      /\ utxoSet' = utxoSet
                      /\ watchedAddrs' = watchedAddrs
          /\ \A q \in Queriers :
                /\ (/\ qs[q].pc = "idle" /\ qs'[q].pc # "idle"
                    /\ \E i \in DOMAIN qs'[q].addresses :
                          DecodeAddress(qs'[q].addresses[i]) = None)
                   => /\ utxoSet' = utxoSet
                      /\ IF chainService = "nil"
                         THEN /\ qs'[q].pc = "failed"
                              /\ qs'[q].err = "chain service not initialized"
                         ELSE qs'[q].pc = "watch" /\ qs'[q].err = None
                /\ (/\ qs[q].pc = "watch" /\ qs'[q] # qs[q]
                    /\ qs[q].pending # <<>>
                    /\ DecodeAddress(Head(qs[q].pending)) = None)
                   => /\ qs'[q] = [qs[q] EXCEPT !.pc = "failed", !.err = "invalid address"]
                      /\ utxoSet' = utxoSet
                      /\ watchedAddrs' = watchedAddrs]_vars

\* Rescan([a, x]) and GetUTXOs([a, x]) have both failed on x, on a chain
\* whose first block pays a and with an output of a in the ledger; a call
\* of WatchAddress(x) was refused as well.
C20_Witness ==
    /\ \E p \in Rescanners :
          /\ rs[p].pc = "done"
          /\ rs[p].err = "invalid address"
          /\ rs[p].addrs = <<"a">>
          /\ rs[p].addresses = <<"x">>
    /\ \E q \in Queriers :
          /\ qs[q].pc = "failed"
          /\ qs[q].err = "invalid address"
          /\ qs[q].addresses = <<"a", "x">>
    /\ wa.addrStr = "x"
    /\ wa.err = "invalid address"
    /\ "t1" \in Range(BlockAt(0))
    /\ \E k \in DOMAIN utxoSet : utxoSet[k].Address = "a"

\* C21: exactly-once resolution under concurrency.  However WatchAddress,
\* GetUTXOs and Rescan calls naming one address string interleave, the
\* string is decoded and stored once: it is counted once exactly when it is
\* in the registry, and an entry of the registry is never replaced or
\* removed by a later registration.
C21_ResolvedOnce ==
    /\ [](\A a \in AddrStrings :
            resolved[a] = IF a \in DOMAIN watchedAddrs THEN 1 ELSE 0)
    /\ [][\A a \in DOMAIN watchedAddrs :
            /\ a \in DOMAIN watchedAddrs'
            /\ watchedAddrs'[a] = watchedAddrs[a]
            /\ resolved'[a] = resolved[a]]_vars

\* Address a was named by a WatchAddress call that found it cached, by a
\* rescan and by a query that are both past their registration loops.
C21_Witness ==
    /\ wa.addrStr = "a" /\ "a" \in DOMAIN wa.before /\ wa.err = None
    /\ \E p \in Rescanners : rs[p].pc = "scan" /\ rs[p].addrs = <<"a">>
    /\ \E q \in Queriers : qs[q].pc = "collect" /\ qs[q].addresses = <<"a">>
    /\ resolved["a"] = 1

\* C22: GetUTXOs registers implicitly.  A query that is past its
\* registration loop without error, and so any query that succeeds, has
\* every address of its list in the registry; the turn of the loop for an
\* address that was not watched puts it there.
C22_QueryRegisters ==
    /\ [](\A q \in Queriers :
            /\ qs[q].pc \in {"collect", "collected"} =>
                  /\ qs[q].err = None
                  /\ \A i \in DOMAIN qs[q].addresses :
                        /\ qs[q].addresses[i] \in DOMAIN watchedAddrs
                        /\ watchedAddrs[qs[q].addresses[i]]
                             = DecodeAddress(qs[q].addresses[i])
            /\ qs[q].pc = "watch" =>
                  \A i \in 1..(Len(qs[q].addresses) - Len(qs[q].pending)) :
                      qs[q].addresses[i] \in DOMAIN watchedAddrs)
    /\ [][\A q \in Queriers :
            (/\ qs[q].pc = "watch" /\ qs'[q].pc = "watch"
             /\ qs'[q] # qs[q]
             /\ Head(qs[q].pending) \notin DOMAIN watchedAddrs)
            => /\ DOMAIN watchedAddrs' = DOMAIN watchedAddrs \cup {Head(qs[q].pending)}
               /\ resolved'[Head(qs[q].pending)] = 1]_vars

\* GetUTXOs([a, b]) has succeeded with an output in hand; queries are the
\* only callers that register here, so a and b were registered by them.
C22_Witness ==
    \E q \in Queriers :
        /\ qs[q].pc = "collected"
        /\ qs[q].addresses = <<"a", "b">>
        /\ DOMAIN watchedAddrs = {"a", "b"}
        /\ resolved["a"] = 1 /\ resolved["b"] = 1
        /\ qs[q].utxos # EmptyBag

\* C24: without a chain service GetUTXOs and Rescan fail with "chain
\* service not initialized" and change nothing.  The call ends in the step
\* that makes it, with that error, the registry and the ledger as they
\* were; no call gets as far as its registration loop, so nothing is ever
\* registered, nothing scanned and nothing collected, whatever the ledger
\* holds.
C24_NoChainService ==
    /\ [](chainService = "nil" =>
            /\ DOMAIN watchedAddrs = {}
            /\ \A p \in Rescanners :
                  /\ rs[p].pc \in {"idle", "done"}
                  /\ rs[p].pc = "done" =>
                        /\ rs[p].err = "chain service not initialized"
                        /\ rs[p].fetched = {} /\ rs[p].foundUTXOs = EmptyMap
            /\ \A q \in Queriers :
                  /\ qs[q].pc \in {"idle", "failed"}
                  /\ qs[q].utxos = EmptyBag
                  /\ qs[q].pc = "failed" => qs[q].err = "chain service not initialized")
    /\ [][chainService = "nil" =>
            /\ \A p \in Rescanners :
                  rs'[p] # rs[p] => (utxoSet' = utxoSet /\ watchedAddrs' = watchedAddrs)
            /\ \A q \in Queriers :
                  qs'[q] # qs[q] => (utxoSet' = utxoSet /\ watchedAddrs' = watchedAddrs)]_vars

\* Without a chain service, GetUTXOs([a]) has failed although the ledger
\* holds an output of a, and a rescan has failed as well.
C24_Witness ==
    /\ chainService = "nil"
    /\ \E q \in Queriers :
          /\ qs[q].pc = "failed"
          /\ qs[q].addresses = <<"a">>
          /\ qs[q].err = "chain service not initialized"
    /\ \E k \in DOMAIN utxoSet : utxoSet[k].Address = "a"
    /\ \E p \in Rescanners :
          /\ rs[p].pc = "done"
          /\ rs[p].addresses = <<"a", "b">>
          /\ rs[p].err = "chain service not initialized"

C26_LookupBypassesLedger ==
    /\ []((lk.pc = "done" /\ "BestBlock" \in lk.calls
                          /\ lk.err # "failed to get best block") =>
            LET st == LookupFetched([IdleLookup EXCEPT !.txid = lk.txid, !.vout = lk.vout],
                                    lk.startHeight, lk.endHeight, lk.fetched,
                                    NewHashFromStr(lk.txid), lk.vout)
            IN IF st.foundTx = None
               THEN lk.err = "UTXO not found"
               ELSE lk.err = None /\ lk.report = BuildReport(st))
    /\ [][lk' # lk =>
            /\ utxoSet' = utxoSet
            /\ watchedAddrs' = watchedAddrs
            /\ mu' = mu
            /\ resolved' = resolved]_vars

\* The lookup reports t2:1 unspent with the chain's value 20, while the
\* ledger holds t2:1 with another value and a registry entry exists.
C26_Witness ==
    /\ lk.pc = "done"
    /\ lk.err = None
    /\ lk.txid = "t2" /\ lk.vout = 1
    /\ lk.report.Unspent = TRUE
    /\ lk.report.Value = 20
    /\ UtxoKey("t2", 1) \in DOMAIN utxoSet
    /\ utxoSet[UtxoKey("t2", 1)].Value = 7
    /\ "a" \in DOMAIN watchedAddrs

\* C27: AddUTXO and RemoveUTXO act on exactly one outpoint.  AddUTXO leaves
\* under the key "txid:vout" a record of exactly its arguments (the script
\* in hex), RemoveUTXO leaves that key absent; either leaves every other
\* entry and the registry as they were, and RemoveUTXO of an outpoint the
\* ledger does not hold changes nothing.
C27_OneOutpoint ==
    /\ [](\A r \in RemoveInputs :
            UtxoKey(r.txid, r.vout) \notin DOMAIN utxoSet
                => Removed(utxoSet, r.txid, r.vout) = utxoSet)
    /\ [][/\ \A a \in AddInputs :
                AddUTXO(a) =>
                    /\ utxoSet'[a.txHash \o ":" \o ToString(a.vout)]
                         = [TxID |-> a.txHash, Vout |-> a.vout, Value |-> a.value,
                            Address |-> a.addrStr,
                            ScriptPubKey |-> EncodeToString(a.scriptPubKey),
                            Height |-> a.height]
                    /\ \A x \in DOMAIN utxoSet' :
                          x # a.txHash \o ":" \o ToString(a.vout)
                              => (x \in DOMAIN utxoSet /\ utxoSet'[x] = utxoSet[x])
                    /\ \A x \in DOMAIN utxoSet : x \in DOMAIN utxoSet'
                    /\ watchedAddrs' = watchedAddrs
          /\ \A r \in RemoveInputs :
                RemoveUTXO(r) =>
                    /\ r.txid \o ":" \o ToString(r.vout) \notin DOMAIN utxoSet'
                    /\ DOMAIN utxoSet'
                         = DOMAIN utxoSet \ {r.txid \o ":" \o ToString(r.vout)}
                    /\ \A x \in DOMAIN utxoSet' : utxoSet'[x] = utxoSet[x]
                    /\ watchedAddrs' = watchedAddrs]_vars

\* The ledger holds t9:1 as AddUTXO wrote it, beside another output of a
\* that a removal of t9:1 or t1:0 must keep; t1:0 is not there, and the
\* registry is not empty.
C27_Witness ==
    /\ "t9:1" \in DOMAIN utxoSet
    /\ utxoSet["t9:1"] = [TxID |-> "t9", Vout |-> 1, Value |-> 9, Address |-> "a",
                          ScriptPubKey |-> "0a", Height |-> 1]
    /\ "t2:1" \in DOMAIN utxoSet
    /\ "t1:0" \notin DOMAIN utxoSet
    /\ DOMAIN watchedAddrs # {}

(***************************************************************************)
(* Properties of the REST layer.                                           *)
(***************************************************************************)
\* C23: the rescan request is acknowledged at once.  For a request whose
\* body decodes the handler's answer is 200 with status "started" and
\* nothing else; the answer can be written in whatever state the rescan is
\* (not begun, under way, ended, failed); and no step of the rescan, its
\* failure included, touches the answer: the error stays with the goroutine.
C23_RescanAcknowledged ==
    /\ []((resp.pc = "replying" /\ resp.handler = "rescan") => ENABLED HandleRescanReply)
    /\ [][/\ (resp.pc = "replying" /\ resp.handler = "rescan" /\ resp' # resp) =>
                /\ resp' = [resp EXCEPT !.pc = "replied", !.status = 200,
                                        !.body = "started"]
                /\ rs' = rs /\ utxoSet' = utxoSet
          /\ \A p \in Rescanners :
                (rs[p].rest /\ rs'[p] # rs[p]) => resp' = resp]_vars

\* The request was answered "started" and the rescan it started has failed
\* on an address that does not decode.
C23_Witness ==
    /\ resp.pc = "replied"
    /\ resp.handler = "rescan"
    /\ resp.status = 200
    /\ resp.body = "started"
    /\ \E p \in Rescanners :
          /\ rs[p].pc = "done"
          /\ rs[p].rest
          /\ rs[p].err = "invalid address"


\* C28: error classes map to HTTP status.  A lookup through the REST handler
\* that fails because the outpoint was not found is answered 404, and one
\* that fails because the address does not decode or the txid is malformed
\* is answered 400.
C28_ErrorClassStatus ==
    (lk.pc = "replied" /\ lk.rest) =>
        /\ lk.httpErr = "UTXO not found" => lk.http = 404
        /\ lk.httpErr \in {"invalid address", "invalid txid"} => lk.http = 400


\* C29: malformed requests are rejected with HTTP 400 before any node
\* operation is invoked.  A body that is no JSON (broadcast, rescan), a
\* transaction that is no hex, a block height that is no number, a vout that
\* is no number and a missing address are each answered 400 with the message
\* of the failed check, and the node is not called: no rescan is started and
\* no lookup is entered.  No 400 answer of these handlers follows a call of
\* the node.
C29_MalformedRejected ==
    /\ []((resp.pc = "replied" /\ resp.status = 400) => ~resp.called)
    /\ []((lk.pc = "replied" /\ lk.http = 400)
            => (lk.calls = {} /\ lk.err = None /\ lk.report = None))
    /\ [][/\ \A d \in BOOLEAN, h \in TxHexStrings :
                (HandleBroadcastTransaction(d, h) /\ (~d \/ DecodeString(h).err))
                    => resp' = [pc |-> "replied", handler |-> "broadcast",
                                status |-> 400,
                                body |-> IF ~d THEN "invalid request body"
                                         ELSE "invalid transaction hex",
                                called |-> FALSE]
          /\ \A h \in HeightStrings :
                (HandleGetBlockHeader(h) /\ h \notin {"0", "1", "2"})
                    => resp' = [pc |-> "replied", handler |-> "header",
                                status |-> 400, body |-> "invalid height",
                                called |-> FALSE]
          /\ \A p \in Rescanners :
                HandleRescan(p, FALSE, 0, <<"a">>)
                    => /\ resp' = [pc |-> "replied", handler |-> "rescan",
                                   status |-> 400, body |-> "invalid request body",
                                   called |-> FALSE]
                       /\ rs' = rs
          /\ \A v \in VoutStrings, a \in {"", "a"} :
                (HandleGetUTXO("t1", v, a, 0) /\ (v \notin {"0", "1"} \/ a = ""))
                    => /\ lk'.pc = "replied"
                       /\ lk'.http = 400
                       /\ lk'.httpErr = IF v \notin {"0", "1"} THEN "invalid vout"
                                        ELSE "address parameter is required"
                       /\ lk'.calls = {} /\ lk'.err = None /\ lk'.report = None]_vars

\* A broadcast of a transaction that is no hex has been answered 400 while
\* a lookup without an address has been answered 400, neither having reached
\* the node.
C29_Witness ==
    /\ resp = [pc |-> "replied", handler |-> "broadcast", status |-> 400,
               body |-> "invalid transaction hex", called |-> FALSE]
    /\ lk.pc = "replied" /\ lk.rest
    /\ lk.http = 400
    /\ lk.httpErr = "address parameter is required"
    /\ lk.calls = {}


\* C30: node creation accepts exactly the four networks.  NewNode fails if
\* and only if the configuration is nil or its network is none of mainnet,
\* testnet, regtest, signet; a failure carries an error and a created node
\* its chain parameters.  A node that is created and not started reports
\* not synced, block height 0 and 0 peers.
C30_NodeCreation ==
    /\ node.pc # "none" =>
          /\ node.pc = "failed"
                <=> (node.config.nil
                     \/ node.config.Network
                          \notin {"mainnet", "testnet", "regtest", "signet"})
          /\ node.pc = "failed" => (node.err # None /\ node.chainParams = None)
          /\ node.pc = "created" => (node.err = None /\ node.chainParams # None)
    /\ (node.pc = "created" /\ chainService = "nil" /\ node.status.asked) =>
          /\ ~node.status.Synced
          /\ node.status.BlockHeight = 0
          /\ node.status.Peers = 0

\* A node created for signet, not started, has been asked for its status.
C30_Witness ==
    /\ node.pc = "created"
    /\ node.config.Network = "signet"
    /\ chainService = "nil"
    /\ node.status.asked


(***************************************************************************)
(* Properties of rescans side by side, of the scan order and of the frame. *)
(***************************************************************************)
\* C31: concurrent rescans are serializable at the ledger.  Two rescans are
\* never inside their updates together, and when a rescan has applied its
\* result after another one applied its own while the first was under way,
\* the ledger is the second result applied atomically to the first result
\* applied atomically to the ledger the first one found; which of the two
\* comes first is the order in which they took the lock.
C31_Serializable ==
    /\ \A p, q \in ConcurrentRescanners :
          (p # q /\ rs[p].pc \in {"insert", "remove", "updated"})
              => rs[q].pc \notin {"insert", "remove", "updated"}
    /\ \A p \in ConcurrentRescanners :
          (rs[p].pc = "updated" /\ applied.set /\ applied.by # p) =>
              /\ rs[p].before = Apply(applied.before, applied.found, applied.spent)
              /\ utxoSet = Apply(Apply(applied.before, applied.found, applied.spent),
                                 rs[p].foundUTXOs, rs[p].spentOutputs)

\* r2 has applied its result after r1, which finished while r2 was under
\* way; each of the two updates changed the ledger.
C31_Witness ==
    /\ rs["r2"].pc = "updated"
    /\ applied.set /\ applied.by = "r1"
    /\ applied.before # rs["r2"].before
    /\ utxoSet # rs["r2"].before
    /\ rs["r2"].fetched # {}


\* C32: the ledger never holds a partial or mis-keyed record.  Whatever the
\* interleaving of rescans, AddUTXO, RemoveUTXO and queries, every entry is
\* stored under the key "txid:vout" of its own txid and vout, and is, field
\* for field, the record of one output of the chain as a scan records it or
\* the record of one AddUTXO call.
C32_WholeRecords ==
    \A k \in DOMAIN utxoSet :
        /\ k = utxoSet[k].TxID \o ":" \o ToString(utxoSet[k].Vout)
        /\ \/ \E h \in 0..BestHeight :
                \E t \in Range(BlockAt(h)) :
                    \E o \in DOMAIN MsgTx(t).TxOut :
                        \E a \in {"a", "b"} :
                            /\ MsgTx(t).TxOut[o].PkScript = PayToAddrScript(a)
                            /\ utxoSet[k] =
                                 [TxID |-> t, Vout |-> o - 1,
                                  Value |-> MsgTx(t).TxOut[o].Value,
                                  Address |-> a,
                                  ScriptPubKey |-> EncodeToString(MsgTx(t).TxOut[o].PkScript),
                                  Height |-> h]
           \/ \E a \in AddInputs :
                utxoSet[k] = [TxID |-> a.txHash, Vout |-> a.vout, Value |-> a.value,
                              Address |-> a.addrStr,
                              ScriptPubKey |-> EncodeToString(a.scriptPubKey),
                              Height |-> a.height]

\* The ledger holds t1:0 as a rescan recorded it, over the record AddUTXO
\* had written for the same outpoint, beside a record only AddUTXO writes,
\* while a query reads.
C32_Witness ==
    /\ "t1:0" \in DOMAIN utxoSet
    /\ utxoSet["t1:0"].Value = 50
    /\ \E p \in Rescanners : rs[p].pc = "updated" /\ "t1:0" \in DOMAIN rs[p].before
    /\ "t9:1" \in DOMAIN utxoSet
    /\ \E q \in Queriers : qs[q].pc \in {"watch", "rlock"}


\* C33: heights are scanned in ascending order, each at most once, over the
\* range from startHeight to the tip as it was when the call started.  A
\* rescan and a lookup enter the loop at startHeight with the tip of that
\* moment; every turn handles the height the loop stands at, which no
\* earlier turn handled, and moves one up; the end of the range never
\* changes, so a block mined meanwhile is not scanned.  A rescan has been at
\* every height of the range, and at no other, when its update begins.
C33_AscendingOnce ==
    /\ [](\A p \in Rescanners :
            rs[p].pc \in {"scan", "insert", "remove", "updated"} =>
                /\ rs[p].endHeight <= BestHeight
                /\ rs[p].fetched \subseteq
                      rs[p].startHeight..(rs[p].height - 1)
                /\ rs[p].height - 1 <= rs[p].endHeight
                /\ rs[p].pc # "scan" =>
                      rs[p].startHeight..(rs[p].height - 1)
                          = rs[p].startHeight..rs[p].endHeight)
    /\ [](lk.pc \in {"scan", "build"} =>
            /\ lk.endHeight <= BestHeight
            /\ lk.fetched \cap lk.skipped = {}
            /\ lk.fetched \cup lk.skipped \subseteq lk.startHeight..lk.endHeight
            /\ lk.pc = "scan" =>
                  lk.fetched \cup lk.skipped = lk.startHeight..(lk.height - 1))
    /\ [][/\ \A p \in Rescanners :
                /\ (rs[p].pc = "watch" /\ rs'[p].pc = "scan") =>
                      /\ rs'[p].endHeight = BestHeight
                      /\ rs'[p].height = rs[p].startHeight
                      /\ rs'[p].fetched = {}
                /\ (rs[p].pc = "scan" /\ rs'[p] # rs[p]) =>
                      /\ rs'[p].endHeight = rs[p].endHeight
                      /\ rs'[p].startHeight = rs[p].startHeight
                      /\ rs'[p].pc = "scan" =>
                            /\ rs[p].height \in rs[p].startHeight..rs[p].endHeight
                            /\ rs'[p].height = rs[p].height + 1
                            /\ rs[p].height \notin rs[p].fetched
                            /\ rs'[p].fetched \in {rs[p].fetched,
                                                   rs[p].fetched \cup {rs[p].height}}
                      /\ rs'[p].pc # "scan" =>
                            /\ rs'[p].height = rs[p].height
                            /\ rs'[p].fetched = rs[p].fetched
          /\ (lk.pc = "idle" /\ lk'.pc = "scan") =>
                /\ lk'.endHeight = BestHeight
                /\ lk'.height = lk'.startHeight
                /\ lk'.fetched \cup lk'.skipped = {}
          /\ (lk.pc = "scan" /\ lk' # lk) =>
                /\ lk'.endHeight = lk.endHeight
                /\ lk'.startHeight = lk.startHeight
                /\ (lk'.fetched \cup lk'.skipped) # (lk.fetched \cup lk.skipped) =>
                      /\ lk.height \in lk.startHeight..lk.endHeight
                      /\ lk.height \notin lk.fetched \cup lk.skipped
                      /\ lk'.fetched \cup lk'.skipped
                            = lk.fetched \cup lk.skipped \cup {lk.height}
                      /\ lk'.height \in {lk.height, lk.height + 1}]_vars

\* A rescan from height 0 has been at the heights 0 and 1, fetching both
\* blocks, and is through with its range while the chain has a third block.
C33_Witness ==
    \E p \in Rescanners :
        /\ rs[p].pc = "scan"
        /\ rs[p].startHeight = 0
        /\ rs[p].endHeight = 1
        /\ rs[p].height = 2
        /\ rs[p].fetched = {0, 1}
        /\ BestHeight = 2


\* C34: inputs are recorded as spent unconditionally.  When a rescan has
\* applied its update, the outpoint every input of every transaction of
\* every block it fetched refers to is in its spent set and absent from the
\* ledger, whichever address the outpoint pays and whether or not this
\* rescan saw its creation.
C34_SpentUnconditionally ==
    \A p \in Rescanners :
        rs[p].pc = "updated" =>
            \A h \in rs[p].fetched :
                \A t \in Range(BlockAt(h)) :
                    \A n \in DOMAIN MsgTx(t).TxIn :
                        LET prevOut == MsgTx(t).TxIn[n]
                            key == prevOut.Hash \o ":" \o ToString(prevOut.Index)
                        IN /\ key \in rs[p].spentOutputs
                           /\ key \notin DOMAIN utxoSet

\* A rescan for b alone, from a height above the creation of t1:0, has
\* removed t1:0, an output of a that an earlier rescan had stored.
C34_Witness ==
    \E p \in Rescanners :
        /\ rs[p].pc = "updated"
        /\ rs[p].addrs = <<"b">>
        /\ "t1:0" \in DOMAIN rs[p].before
        /\ rs[p].before["t1:0"].Address = "a"
        /\ "t1:0" \in obsCreated
        /\ "t1:0" \notin DOMAIN rs[p].foundUTXOs
        /\ \A h \in rs[p].fetched : "t1" \notin Range(BlockAt(h))
        /\ "t1:0" \notin DOMAIN utxoSet


\* C35: every output a rescan records carries the data of its own block and
\* output.  Each record of the found set is that of an output of a
\* transaction of a fetched block: its height is the block's, its txid the
\* transaction's, its vout the output's index, its value and script the
\* output's, its address one of the rescan's addresses, the one whose script
\* is the output's; so an output that pays no script of this rescan is not
\* recorded.
C35_RecordOfOwnOutput ==
    \A p \in Rescanners :
        rs[p].pc \in {"scan", "insert", "remove", "updated"} =>
            \A k \in DOMAIN rs[p].foundUTXOs :
                LET u == rs[p].foundUTXOs[k] IN
                /\ u.Height \in rs[p].fetched
                /\ u.TxID \in Range(BlockAt(u.Height))
                /\ u.Vout + 1 \in DOMAIN MsgTx(u.TxID).TxOut
                /\ k = u.TxID \o ":" \o ToString(u.Vout)
                /\ u.Value = MsgTx(u.TxID).TxOut[u.Vout + 1].Value
                /\ u.ScriptPubKey = EncodeToString(MsgTx(u.TxID).TxOut[u.Vout + 1].PkScript)
                /\ u.Address \in Range(rs[p].addrs)
                /\ PayToAddrScript(u.Address) = MsgTx(u.TxID).TxOut[u.Vout + 1].PkScript

\* A rescan for a alone fetched the blocks of two heights, one with t3,
\* whose output pays no watched script, and recorded t2:1 at height 1 but
\* neither t2:0, which pays b, nor t3:0.
C35_Witness ==
    \E p \in Rescanners :
        /\ rs[p].pc = "updated"
        /\ rs[p].addrs = <<"a">>
        /\ rs[p].fetched = {0, 1}
        /\ "t2" \in Range(BlockAt(1))
        /\ "t3" \in Range(BlockAt(0))
        /\ "t2:1" \in DOMAIN rs[p].foundUTXOs
        /\ rs[p].foundUTXOs["t2:1"].Height = 1
        /\ "t2:0" \notin DOMAIN rs[p].foundUTXOs
        /\ "t3:0" \notin DOMAIN rs[p].foundUTXOs


\* C36, as stated: the frame of a rescan, and a rescan whose startHeight is
\* above the tip changes nothing: when its update is over the ledger is the
\* one the update found and the call has added no address to the registry.
C36_AboveTipChangesNothing ==
    \A p \in Rescanners :
        (rs[p].pc = "updated" /\ rs[p].startHeight > rs[p].endHeight) =>
            /\ utxoSet = rs[p].before
            /\ ~rs[p].registered

\* C36, amended: the frame of a rescan.  A completed rescan leaves
\* untouched every ledger entry whose outpoint it neither found nor saw
\* spent, and no step of a rescan removes or alters an address of the
\* registry.  A rescan whose startHeight is above the tip it read examines no
\* height, collects nothing, changes nothing in the ledger and returns
\* success; the addresses it was called with stay registered.
C36_RescanFrame ==
    /\ [](\A p \in Rescanners :
            /\ rs[p].pc = "updated" =>
                  /\ \A k \in DOMAIN rs[p].before
                                \ (DOMAIN rs[p].foundUTXOs \cup rs[p].spentOutputs) :
                        k \in DOMAIN utxoSet /\ utxoSet[k] = rs[p].before[k]
                  /\ \A k \in DOMAIN utxoSet \ DOMAIN rs[p].foundUTXOs :
                        k \in DOMAIN rs[p].before
            /\ (/\ rs[p].pc \in {"scan", "insert", "remove", "updated"}
                /\ rs[p].startHeight > rs[p].endHeight)
                  => /\ rs[p].height = rs[p].startHeight
                     /\ rs[p].fetched = {}
                     /\ rs[p].last = <<>>
                     /\ rs[p].foundUTXOs = EmptyMap
                     /\ rs[p].spentOutputs = {}
                     /\ rs[p].pc # "scan" => utxoSet = rs[p].before
                     /\ \A i \in DOMAIN rs[p].addrs :
                           rs[p].addrs[i] \in DOMAIN watchedAddrs)
    /\ [][\A p \in Rescanners :
            /\ rs'[p] # rs[p] =>
                  \A a \in DOMAIN watchedAddrs :
                      a \in DOMAIN watchedAddrs' /\ watchedAddrs'[a] = watchedAddrs[a]
            /\ (/\ rs'[p] # rs[p]
                /\ rs[p].pc \in {"scan", "insert", "remove", "updated"}
                /\ rs[p].startHeight > rs[p].endHeight)
                  => /\ utxoSet' = utxoSet
                     /\ watchedAddrs' = watchedAddrs
                     /\ rs[p].pc = "updated" => (rs'[p].pc = "done" /\ rs'[p].err = None)]_vars

\* A rescan from above the tip has registered an address and finished its
\* update over a ledger that holds an entry.
C36_Witness ==
    \E p \in Rescanners :
        /\ rs[p].pc = "updated"
        /\ rs[p].startHeight > rs[p].endHeight
        /\ rs[p].registered
        /\ utxoSet # EmptyMap
        /\ utxoSet = rs[p].before


(***************************************************************************)
(* Further properties of the point lookup.                                 *)
(***************************************************************************)
\* C37: a spend is recognised only after the creation has been found.  A
\* lookup holds a spending transaction only together with the creation, the
\* spend at or after the creation's height; while the creation is missing,
\* no transaction other than the creating one changes what the lookup
\* knows, whatever its inputs; and a lookup whose startHeight lies after the
\* creating block ends with "UTXO not found" and no spend, also when it
\* fetched the block of the spending transaction.
C37_SpendAfterCreation ==
    /\ lk.spendingTxHash # "" =>
          /\ lk.foundTx # None
          /\ lk.spendingHeight >= lk.foundHeight
          /\ lk.foundHeight \in lk.fetched
    /\ (lk.pc = "scan" /\ lk.foundTx = None) =>
          \A t \in TxIds \ {lk.txid} :
              LookupTx(lk, t, NewHashFromStr(lk.txid), lk.vout, lk.height) = lk
    /\ (lk.pc = "done" /\ "BestBlock" \in lk.calls
                       /\ lk.err # "failed to get best block") =>
          \A hc \in 0..(lk.startHeight - 1) :
              (hc <= lk.endHeight /\ lk.txid \in Range(BlockAt(hc)))
                  => /\ lk.err = "UTXO not found"
                     /\ lk.foundTx = None
                     /\ lk.spendingTxHash = ""

\* t1 was mined at height 0 and t2, which spends t1:0, at height 1; a lookup
\* of t1:0 from height 1 fetched the block of t2 and failed.
C37_Witness ==
    /\ lk.pc = "done"
    /\ lk.err = "UTXO not found"
    /\ lk.txid = "t1" /\ lk.vout = 0
    /\ lk.startHeight = 1
    /\ 1 \in lk.fetched
    /\ "t1" \in Range(BlockAt(0))
    /\ "t2" \in Range(BlockAt(1))


\* C38: creation requires a valid output index.  The creation a lookup
\* holds is the target transaction with vout an index of its outputs; a
\* transaction with the target id whose outputs vout does not index leaves
\* what the lookup knows as it was; and a lookup with such a vout ends,
\* after every height up to the tip was visited, with "UTXO not found" and
\* neither creation nor spend.
C38_CreationNeedsValidIndex ==
    /\ lk.foundTx # None =>
          /\ lk.foundTx = lk.txid
          /\ lk.vout < Len(MsgTx(lk.txid).TxOut)
    /\ (lk.pc = "scan" /\ lk.vout >= Len(MsgTx(lk.txid).TxOut)) =>
          /\ LookupTx(lk, lk.txid, NewHashFromStr(lk.txid), lk.vout, lk.height) = lk
          /\ LookupBlock(lk, <<lk.txid>>, NewHashFromStr(lk.txid), lk.vout, lk.height) = lk
    /\ (lk.pc = "done" /\ "BestBlock" \in lk.calls
                       /\ lk.err # "failed to get best block"
                       /\ lk.vout >= Len(MsgTx(lk.txid).TxOut)) =>
          /\ lk.err = "UTXO not found"
          /\ lk.foundTx = None
          /\ lk.spendingTxHash = ""
          /\ lk.height > lk.endHeight
          /\ lk.fetched \cup lk.skipped = lk.startHeight..lk.endHeight

\* A lookup of t2:2 (t2 has the outputs 0 and 1) fetched the block of t2 and
\* failed.
C38_Witness ==
    /\ lk.pc = "done"
    /\ lk.err = "UTXO not found"
    /\ lk.txid = "t2" /\ lk.vout = 2
    /\ \E h \in lk.fetched : "t2" \in Range(BlockAt(h))


\* C39: a lookup reports only on an outpoint owned by the supplied address.
\* Whenever a lookup that fetched only blocks whose filter holds the
\* address's script returns an unspent report, the reported script is the
\* script derived from the address.
C39_ReportOwnedByAddress ==
    (/\ lk.pc = "done"
     /\ lk.err = None
     /\ \A h \in lk.fetched : MatchAny(BlockAt(h), <<lk.pkScript>>)
     /\ lk.report.Unspent)
        => lk.report.ScriptPubKey
              = EncodeToString(PayToAddrScript(DecodeAddress(lk.address)))


(***************************************************************************)
(* Termination.                                                            *)
(***************************************************************************)
\* C40, as stated: a rescan waits on no concurrent query: whenever a Rescan
\* call is under way, a step of it can be taken.
C40_RescanNeverWaits ==
    \A p \in Rescanners :
        rs[p].pc \in {"watch", "scan", "insert", "remove", "updated"} =>
            ENABLED RescanRun(p)

\* C40, amended: every rescan and every lookup terminates.  The height
\* loop of a rescan is at startHeight plus the heights it visited, never
\* past tip + 1, and a rescan under way ends with its result applied or an
\* error; a lookup under way ends with a report or an error.  A step of the
\* lookup can always be taken, whatever the rescan and the query do; a step
\* of the rescan can be taken whenever nobody else holds the lock, which is
\* all it waits for.
C40_Terminates ==
    /\ \A p \in Rescanners :
          rs[p].pc \in {"watch", "scan", "insert", "remove", "updated"}
              ~> rs[p].pc = "done"
    /\ lk.pc \in {"scan", "build"} ~> lk.pc = "done"
    /\ [](\A p \in Rescanners :
            /\ rs[p].pc = "scan" =>
                  /\ rs[p].height >= rs[p].startHeight
                  /\ rs[p].height <= rs[p].endHeight + 1 \/ rs[p].height = rs[p].startHeight
                  /\ rs[p].endHeight <= BestHeight
            /\ (/\ rs[p].pc \in {"watch", "scan", "insert", "remove", "updated"}
                /\ mu.writer \in {None, p} /\ mu.readers = {})
                  => ENABLED RescanRun(p))
    /\ [](lk.pc \in {"scan", "build"} =>
            /\ ENABLED LookupRun
            /\ lk.height >= lk.startHeight
            /\ lk.height <= lk.endHeight + 1 \/ lk.height = lk.startHeight)

\* The rescan visited the two heights from its start to the tip it read and
\* waits for the lock a query holds, while a lookup is in its loop.
C40_Witness ==
    \E p \in Rescanners, q \in Queriers :
        /\ rs[p].pc = "scan"
        /\ rs[p].startHeight + 1 = rs[p].endHeight
        /\ rs[p].height = rs[p].endHeight + 1
        /\ q \in mu.readers
        /\ ~ENABLED RescanRun(p)
        /\ lk.pc = "scan"
        /\ lk.height <= lk.endHeight

====
